---- MODULE Spec2Model ----
(***************************************************************************)
(* A model of the Ladder Legends uploader (src/src-tauri/src).             *)
(*                                                                         *)
(* The module holds one state machine per component, each with its own    *)
(* specification over the module's variables:                              *)
(*   WatcherSpec  RobustFileWatcher (file_watcher.rs)                      *)
(*   WatcherLiveSpec  the same under the fairness of the task scheduler    *)
(*   ExecSpec     UploadExecutor under overlapping scan_and_upload calls   *)
(*                (services/upload_executor.rs, commands/upload.rs)        *)
(*   TrackerSpec  ReplayTracker and save_to_path (replay_tracker.rs)       *)
(*   ScanSpec     ReplayScanner::scan_and_prepare                          *)
(*                (services/replay_scanner.rs, upload_manager.rs)          *)
(*   ClockSpec    RobustFileWatcher's start, stop and timers on the clock  *)
(*                (file_watcher.rs)                                        *)
(*   LockSpec     the tracker and state mutexes under panics and awaits    *)
(*                (upload_manager.rs, services/upload_executor.rs)         *)
(*   FuncSpec     calls of the pure functions (upload_manager.rs,          *)
(*                replay_parser.rs, replay_tracker.rs)                     *)
(*   ManagerWatchSpec  UploadManager::start_watching (upload_manager.rs,   *)
(*                commands/upload.rs)                                      *)
(*   GuardSpec    the processed_files mutex of the watcher's tasks         *)
(*                (file_watcher.rs)                                        *)
(* A specification leaves the variables of the other components at their  *)
(* idle values.                                                            *)
(***************************************************************************)
EXTENDS Integers, Sequences, FiniteSets, TLC

(***************************************************************************)
(* Bounds of the model.                                                    *)
(***************************************************************************)
\* number of start() calls that succeed in one run (task generations)
MaxStarts == 1
\* capacity of the path channel (mpsc::channel(100) in the code, scaled)
MaxChan == 2
\* scan_and_upload invocations of one process that may overlap
NumInvocations == 2
\* start() calls that spawn tasks, in the model of the watcher's clock
MaxSpawns == 2
\* seconds the clock advances in one step, and the last second of a run
TimeStep == 20
MaxTime == 400
\* replays one scan prepares (the limit argument)
MaxPrepared == 2

\* the longest new_hashes list of a check-hashes answer
MaxNewHashes == 3
\* threads that call into the upload manager, and the calls each one makes
NumThreads == 2
MaxCalls == 2
\* the longest list of hashes passed to group_replays_by_type_and_player
MaxGroupInput == 4
\* the longest list of replays passed to detect_user_player_names
MaxDetectInput == 3
\* the most observers and the most AI players of a classified replay
MaxObservers == 1
MaxAI == 1
\* start_watching calls that create a watcher, and the events the operating
\* system reports to them
MaxWatchers == 2
\* errors the native watcher delivers in one run
MaxErrors == 2
MaxFsEvents == 3

(***************************************************************************)
(* RobustFileWatcher: file_watcher.rs                                      *)
(***************************************************************************)
VARIABLES
    is_running,       \* AtomicBool is_running
    processed_files,  \* Mutex<HashSet<PathBuf>>
    last_event_stale, \* now - last_event_time > heartbeat_timeout_secs
    gen,              \* number of successful start() calls so far
    chan,             \* per start(): the mpsc channel of paths
    native,           \* per start(): the native-event task
    hb,               \* per start(): the heartbeat monitor
    poll,             \* per start(): the polling fallback
    proc,             \* per start(): the event processor
    proc_path,        \* per start(): the path the processor is settling
    files,            \* the watched folders: state of each path
    cb_count,         \* number of callback(path) calls per path
    born_running,     \* paths created while the watcher has been running
    poll_reported,    \* paths a fallback poll put on the channel in this run
    native_reported,  \* paths the native task put on the channel in this run
    errors_recovered, \* WatcherStats::errors_recovered
    dropped           \* paths the event processor found gone after the delay

\* the error counter and the processor's log of dropped paths
wstats == <<errors_recovered, dropped>>

wvars == <<is_running, processed_files, last_event_stale, gen, chan, native, hb,
           poll, proc, proc_path, files, cb_count, born_running, poll_reported,
           native_reported, wstats>>


\* the tracker, the manager state and the scan_and_upload invocations
VARIABLES
    tracker,     \* Arc<Mutex<ReplayTracker>>: replays (by hash), total_uploaded,
                 \* manifest_version
    disk,        \* the config directory: contents of replays.json and of
                 \* replays.json.tmp
    state,       \* Arc<Mutex<UploadManagerState>>
    prepared,    \* per invocation: prepared_replays of its scan
    epc,         \* per invocation: position in scan_and_upload / execute
    order,       \* per invocation: prepared replays in upload order
    pos,         \* per invocation: global_index
    uploaded_count, \* per invocation: uploaded_count
    result,      \* per invocation: what execute returned
    emitted,     \* per invocation: events passed to app.emit
    handled      \* per invocation: the last upload request that returned

kvars == <<tracker, disk>>

evars == <<state, prepared, epc, order, pos, uploaded_count, result, emitted,
           handled>>

\* ReplayTracker::save_to_path in progress, and the process around it
VARIABLES
    tpc,           \* "down": no process; "idle"; else the next step of the save
    save_contents, \* contents: the serialized tracker of the last save
    final_before,  \* what replays.json held when the last save began
    save_returned, \* what the last save returned
    last_op        \* the last tracker operation

tvars == <<tpc, save_contents, final_before, save_returned, last_op>>

\* ReplayScanner::scan_and_prepare, one scan
VARIABLES
    scan_pc,          \* "idle", "filter", "check", "done"
    scan_limit,       \* the limit argument
    player_names,     \* the player-name hint the scan uses
    todo,             \* recent replays filter_and_hash_replays has not seen yet
    hash_infos,       \* hashes to check with the server
    replay_map,       \* hash -> (file, game type, player name)
    scan_result,      \* what scan_and_prepare returned
    prepared_replays, \* ScanResult::prepared_replays
    check_failed,     \* the check-hashes request failed
    meta_failed,      \* files whose metadata could not be read
    listed,           \* files scan_all_folders returned
    hashed,           \* files calculate_hash was called on
    net_calls,        \* the requests sent to the server, in order
    new_hashes,       \* HashCheckResponse::new_hashes of the scan
    su_pos,           \* scan_and_upload: the prepared replay to upload next
    su_uploaded,      \* scan_and_upload: uploaded_count
    su_result,        \* what scan_and_upload returned
    scan_tracker,     \* the clone of the tracker the scan reads
    su_error,         \* the Err text scan_and_upload returned
    su_events         \* the events scan_and_upload passed to app.emit

svars == <<scan_pc, scan_limit, player_names, todo, hash_infos, replay_map,
           scan_result, prepared_replays, check_failed, meta_failed, listed,
           hashed, net_calls, new_hashes, su_pos, su_uploaded, su_result,
           scan_tracker, su_error, su_events>>

\* RobustFileWatcher, its clock: the timestamps of the heartbeat monitor and
\* of the polling fallback, in seconds
VARIABLES
    clock,            \* current_timestamp()
    last_event_time,  \* RobustFileWatcher::last_event_time
    watching,         \* RobustFileWatcher::is_running
    spawned,          \* start() calls that spawned the four tasks
    hb_wake,          \* per spawn: when the heartbeat monitor's sleep ends
    poll_wake,        \* per spawn: when the polling fallback's sleep ends
    silent_since,     \* when the native watcher last delivered an event
    recovered,        \* a recovery scan has run since silent_since
    last_start        \* the last call of start(): what it saw and returned

hvars == <<clock, last_event_time, watching, spawned, hb_wake, poll_wake,
           silent_since, recovered, last_start>>

\* the two std::sync::Mutex of the upload manager and the threads that
\* lock them
VARIABLES
    holder,     \* per mutex: the thread that holds its guard, 0 for none
    poisoned,   \* per mutex: a thread panicked while it held the guard
    lprog,      \* per thread: the steps left of the call it is in
    lop,        \* per thread: the operation it is in
    lresult,    \* per thread: how its last call ended
    in_flight,  \* per thread: the request whose answer its call awaits
    calls       \* per thread: calls made so far

lvars == <<holder, poisoned, lprog, lop, lresult, in_flight, calls>>

\* one call of a pure function of the uploader
VARIABLES
    fn_call,    \* the function and its arguments
    fn_result   \* what it returned

fvars == <<fn_call, fn_result>>

\* UploadManager::start_watching: the notify watchers it has created and
\* the tasks that pass their paths to on_new_file
VARIABLES
    is_watching,       \* UploadManagerState::is_watching
    watchers,          \* start_watching calls that returned Ok
    rx,                \* per watcher: the paths in its mpsc channel
    on_new_file_calls, \* per path: calls of on_new_file(path), each of which
                       \* emits new-replay-detected
    fs_events,         \* events the operating system has reported
    sw_result          \* what the last start_watching returned

mvars == <<is_watching, watchers, rx, on_new_file_calls, fs_events, sw_result>>

\* the processed_files mutex of the watcher, and the two tasks that lock it
VARIABLES
    pf_holder,   \* the task that holds the guard of processed_files
    processed,   \* the set behind the mutex
    poll_pc,     \* polling fallback: where it is in its loop
    poll_found,  \* polling fallback: the found paths it has yet to handle
    proc_pc,     \* event processor: where it is in its loop
    proc_cur,    \* event processor: the path it received
    pf_chan,     \* the mpsc channel of paths
    called       \* paths the callback was called with

pvars == <<pf_holder, processed, poll_pc, poll_found, proc_pc, proc_cur,
           pf_chan,
           called>>

\* what the actions of one component leave alone
wframe ==
    <<kvars, evars, tvars, svars, hvars, lvars, fvars, mvars, pvars>>
eframe ==
    <<wvars, tvars, svars, hvars, lvars, fvars, mvars, pvars>>
tframe ==
    <<wvars, evars, svars, hvars, lvars, fvars, mvars, pvars>>
sframe ==
    <<wvars, kvars, evars, tvars, hvars, lvars, fvars, mvars, pvars>>
hframe ==
    <<wvars, kvars, evars, tvars, svars, lvars, fvars, mvars, pvars>>
lframe ==
    <<wvars, kvars, evars, tvars, svars, hvars, fvars, mvars, pvars>>
fframe ==
    <<wvars, kvars, evars, tvars, svars, hvars, lvars, mvars, pvars>>
mframe ==
    <<wvars, kvars, evars, tvars, svars, hvars, lvars, fvars, pvars>>
pframe ==
    <<wvars, kvars, evars, tvars, svars, hvars, lvars, fvars, mvars>>

vars == <<wvars, kvars, evars, tvars, svars, hvars, lvars, fvars, mvars, pvars>>

Gens == 1..MaxStarts
ReplayPaths == {"a.SC2Replay", "b.sc2replay"}
OtherPaths == {"notes.txt"}
Paths == ReplayPaths \cup OtherPaths
NoPath == "none"

\* the file names of the model, and the characters of each
SC2Replay == <<"S", "C", "2", "R", "e", "p", "l", "a", "y">>
FileNameChars ==
    [ n \in {"a.SC2Replay", "b.sc2replay", "c.SC2REPLAY", "notes.txt", "game",
             ".SC2Replay", "d.SC2Replay.bak", "e.SC2Replay"} |->
        CASE n = "a.SC2Replay" -> <<"a", ".">> \o SC2Replay
          [] n = "e.SC2Replay" -> <<"e", ".">> \o SC2Replay
          [] n = "b.sc2replay" ->
                <<"b", ".", "s", "c", "2", "r", "e", "p", "l", "a", "y">>
          [] n = "c.SC2REPLAY" ->
                <<"c", ".", "S", "C", "2", "R", "E", "P", "L", "A", "Y">>
          [] n = "notes.txt" -> <<"n", "o", "t", "e", "s", ".", "t", "x", "t">>
          [] n = "game" -> <<"g", "a", "m", "e">>
          [] n = ".SC2Replay" -> <<".">> \o SC2Replay
          [] n = "d.SC2Replay.bak" ->
                <<"d", ".">> \o SC2Replay \o <<".", "b", "a", "k">> ]
FileNames == DOMAIN FileNameChars

\* Path::extension on the characters of a file name: what follows the last
\* dot, None (here <<>>, no name of the model ends in a dot) when there is no
\* dot or when the only dot is the first character
extension(chars) ==
    LET dots == {i \in 1..Len(chars) : chars[i] = "."}
        last == CHOOSE i \in dots : \A j \in dots : j <= i
    IN IF dots = {} \/ last = 1 THEN <<>>
       ELSE SubSeq(chars, last + 1, Len(chars))

\* u8::to_ascii_lowercase, on the letters of the model's names
to_ascii_lowercase(c) ==
    CASE c = "S" -> "s" [] c = "C" -> "c" [] c = "R" -> "r" [] c = "E" -> "e"
      [] c = "P" -> "p" [] c = "L" -> "l" [] c = "A" -> "a" [] c = "Y" -> "y"
      [] OTHER -> c

\* str::eq_ignore_ascii_case
eq_ignore_ascii_case(a, b) ==
    /\ Len(a) = Len(b)
    /\ \A i \in 1..Len(a) : to_ascii_lowercase(a[i]) = to_ascii_lowercase(b[i])

\* the extension test of scan_replay_folder and of start_watching:
\* path.extension() is Some(ext) and ext == "SC2Replay"
has_replay_extension(path) ==
    LET ext == extension(FileNameChars[path])
    IN ext # <<>> /\ ext = SC2Replay

\* is_sc2_replay: the extension equals SC2Replay ignoring ASCII case
is_sc2_replay(path) ==
    LET ext == extension(FileNameChars[path])
    IN ext # <<>> /\ eq_ignore_ascii_case(ext, SC2Replay)

\* path.exists() / path.is_file()
FileExists(path) == files[path] \in {"fresh", "old"}

\* age.as_secs() < poll_interval_secs + 30
ModifiedRecently(path) == files[path] = "fresh"

\* path.exists() when the settle delay of the event processor has ended
StillExistsAlways(path) == TRUE

StillExists(path) == FileExists(path)

\* processed.contains(&path) in the event processor
AlreadyProcessedNever(path) == FALSE

AlreadyProcessed(path) == path \in processed_files

\* processed.contains(&path) in the polling fallback
PollSeesProcessed(path) == path \in processed_files

\* all orders in which a directory listing can return the members of S
RECURSIVE Orders(_)
Orders(S) ==
    IF S = {} THEN {<<>>}
    ELSE UNION {{<<x>> \o rest : rest \in Orders(S \ {x})} : x \in S}

\* poll_folders_for_replays: every existing replay file under the folders
poll_folders_for_replays == {p \in Paths : FileExists(p) /\ is_sc2_replay(p)}

\* tx.send(path).await on channel g: queued, or an error when the receiver
\* is gone
ChanOpen(g) == proc[g] \in {"idle", "settle"}
SendAll(g, seq) == IF ChanOpen(g) THEN chan[g] \o seq ELSE chan[g]
HasRoom(g, n) == ~ChanOpen(g) \/ Len(chan[g]) + n <= MaxChan

WInit ==
    /\ is_running = FALSE
    /\ processed_files = {}
    /\ last_event_stale = FALSE
    /\ gen = 0
    /\ chan = [g \in Gens |-> <<>>]
    /\ native = [g \in Gens |-> "none"]
    /\ hb = [g \in Gens |-> "none"]
    /\ poll = [g \in Gens |-> "none"]
    /\ proc = [g \in Gens |-> "none"]
    /\ proc_path = [g \in Gens |-> NoPath]
    /\ files \in [Paths -> {"absent", "old"}]
    /\ \A p \in OtherPaths : files[p] = "old"
    /\ cb_count = [p \in Paths |-> 0]
    /\ born_running = {}
    /\ poll_reported = {}
    /\ native_reported = {}
    /\ errors_recovered = 0
    /\ dropped = {}

\* start(): swap(true); an error when already running; else the channel and
\* the four tasks. The native watcher may fail to be created in its thread,
\* which ends the native event loop at once.
Start ==
    /\ ~is_running
    /\ gen < MaxStarts
    /\ \E native_ok \in BOOLEAN :
         native' = [native EXCEPT ![gen + 1] = IF native_ok THEN "run" ELSE "ended"]
    /\ is_running' = TRUE
    /\ gen' = gen + 1
    /\ hb' = [hb EXCEPT ![gen + 1] = "run"]
    /\ poll' = [poll EXCEPT ![gen + 1] = "run"]
    /\ proc' = [proc EXCEPT ![gen + 1] = "idle"]
    /\ UNCHANGED <<processed_files, last_event_stale, chan, proc_path, files,
                   cb_count, born_running, poll_reported, native_reported>>
    /\ UNCHANGED wstats
    /\ UNCHANGED wframe

StartWhileRunning ==
    /\ is_running
    /\ UNCHANGED wvars
    /\ UNCHANGED wstats
    /\ UNCHANGED wframe

\* stop(): is_running.store(false)
Stop ==
    /\ is_running' = FALSE
    /\ born_running' = {}
    /\ poll_reported' = {}
    /\ native_reported' = {}
    /\ UNCHANGED <<processed_files, last_event_stale, gen, chan, native, hb, poll,
                   proc, proc_path, files, cb_count>>
    /\ UNCHANGED wstats
    /\ UNCHANGED wframe

\* The native-event task of start() number g handles one delivered event:
\* Ok(event) of a create/modify kind or another kind, naming one path.
NativeEvent(g) ==
    /\ native[g] = "run"
    /\ \E path \in Paths, kind \in {"create_modify", "other"} :
         /\ files[path] # "absent"
         /\ IF kind = "create_modify" /\ is_sc2_replay(path)
            THEN /\ HasRoom(g, 1)
                 /\ chan' = [chan EXCEPT ![g] = SendAll(g, <<path>>)]
                 /\ native_reported' =
                        IF ChanOpen(g) /\ is_running THEN native_reported \cup {path}
                        ELSE native_reported
            ELSE UNCHANGED <<chan, native_reported>>
    /\ last_event_stale' = FALSE
    /\ native' = [native EXCEPT ![g] = IF is_running THEN "run" ELSE "ended"]
    /\ UNCHANGED <<is_running, processed_files, gen, hb, poll, proc, proc_path,
                   files, cb_count, born_running, poll_reported>>
    /\ UNCHANGED wstats
    /\ UNCHANGED wframe

\* Err(e) from the native watcher, a rescan-needed error included: counted
\* and logged, the loop goes on.
NativeErrorEnds(g) ==
    /\ native[g] = "run"
    /\ errors_recovered < MaxErrors
    /\ last_event_stale' = FALSE
    /\ errors_recovered' = errors_recovered + 1
    /\ native' = [native EXCEPT ![g] = "ended"]
    /\ UNCHANGED <<is_running, processed_files, gen, chan, hb, poll, proc,
                   proc_path, files, cb_count, born_running, poll_reported,
                   native_reported, dropped>>
    /\ UNCHANGED wframe

NativeError(g) ==
    /\ native[g] = "run"
    /\ errors_recovered < MaxErrors
    /\ last_event_stale' = FALSE
    /\ errors_recovered' = errors_recovered + 1
    /\ native' = [native EXCEPT ![g] = IF is_running THEN "run" ELSE "ended"]
    /\ UNCHANGED <<is_running, processed_files, gen, chan, hb, poll, proc,
                   proc_path, files, cb_count, born_running, poll_reported,
                   native_reported, dropped>>
    /\ UNCHANGED wframe

\* One wake of the heartbeat monitor.
HeartbeatTick(g) ==
    /\ hb[g] = "run"
    /\ IF ~is_running
       THEN /\ hb' = [hb EXCEPT ![g] = "ended"]
            /\ UNCHANGED <<chan, last_event_stale>>
       ELSE /\ UNCHANGED hb
            /\ IF last_event_stale
               THEN /\ \E found \in Orders(poll_folders_for_replays) :
                         /\ HasRoom(g, Len(found))
                         /\ chan' = [chan EXCEPT ![g] = SendAll(g, found)]
                    /\ last_event_stale' = FALSE
               ELSE UNCHANGED <<chan, last_event_stale>>
    /\ UNCHANGED <<is_running, processed_files, gen, native, poll, proc, proc_path,
                   files, cb_count, born_running, poll_reported, native_reported>>
    /\ UNCHANGED wstats
    /\ UNCHANGED wframe

\* the paths one fallback poll reports: found, not in processed_files,
\* modified recently
RECURSIVE PollNew(_)
PollNew(found) ==
    IF found = <<>> THEN <<>>
    ELSE IF ~PollSeesProcessed(Head(found)) /\ ModifiedRecently(Head(found))
         THEN <<Head(found)>> \o PollNew(Tail(found))
         ELSE PollNew(Tail(found))

Range(seq) == {seq[i] : i \in 1..Len(seq)}

\* One wake of the polling fallback.
PollTick(g) ==
    /\ poll[g] = "run"
    /\ IF ~is_running
       THEN /\ poll' = [poll EXCEPT ![g] = "ended"]
            /\ UNCHANGED <<chan, last_event_stale, processed_files, poll_reported>>
       ELSE /\ UNCHANGED poll
            /\ last_event_stale' = FALSE
            /\ \E found \in Orders(poll_folders_for_replays) :
                 LET new == PollNew(found) IN
                 /\ HasRoom(g, Len(new))
                 /\ processed_files' = processed_files \cup Range(new)
                 /\ chan' = [chan EXCEPT ![g] = SendAll(g, new)]
                 /\ poll_reported' =
                        IF ChanOpen(g) THEN poll_reported \cup Range(new)
                        ELSE poll_reported
    /\ UNCHANGED <<is_running, gen, native, hb, proc, proc_path, files, cb_count,
                   born_running, native_reported>>
    /\ UNCHANGED wstats
    /\ UNCHANGED wframe

\* The event processor receives one path: leaves when not running, skips a
\* processed path, else inserts it and starts the settle delay.
ProcRecv(g) ==
    /\ proc[g] = "idle"
    /\ chan[g] # <<>>
    /\ LET path == Head(chan[g]) IN
       IF ~is_running
       THEN /\ proc' = [proc EXCEPT ![g] = "ended"]
            /\ chan' = [chan EXCEPT ![g] = <<>>]
            /\ UNCHANGED <<processed_files, proc_path>>
       ELSE /\ chan' = [chan EXCEPT ![g] = Tail(chan[g])]
            /\ IF AlreadyProcessed(path)
               THEN UNCHANGED <<processed_files, proc, proc_path>>
               ELSE /\ processed_files' = processed_files \cup {path}
                    /\ proc' = [proc EXCEPT ![g] = "settle"]
                    /\ proc_path' = [proc_path EXCEPT ![g] = path]
    /\ UNCHANGED <<is_running, last_event_stale, gen, native, hb, poll, files,
                   cb_count, born_running, poll_reported, native_reported>>
    /\ UNCHANGED wstats
    /\ UNCHANGED wframe

\* rx.recv() returns None once every sender of the channel is dropped.
ProcClosed(g) ==
    /\ proc[g] = "idle"
    /\ chan[g] = <<>>
    /\ native[g] = "ended" /\ hb[g] = "ended" /\ poll[g] = "ended"
    /\ proc' = [proc EXCEPT ![g] = "ended"]
    /\ UNCHANGED <<is_running, processed_files, last_event_stale, gen, chan, native,
                   hb, poll, proc_path, files, cb_count, born_running, poll_reported, native_reported>>
    /\ UNCHANGED wstats
    /\ UNCHANGED wframe

\* The settle delay ends: the path is dropped when it no longer exists, else
\* the callback is called.
ProcSettled(g) ==
    /\ proc[g] = "settle"
    /\ LET path == proc_path[g] IN
       IF StillExists(path)
       THEN /\ cb_count' = [cb_count EXCEPT ![path] = @ + 1]
            /\ UNCHANGED dropped
       ELSE /\ dropped' = dropped \cup {path}
            /\ UNCHANGED cb_count
    /\ proc' = [proc EXCEPT ![g] = "idle"]
    /\ proc_path' = [proc_path EXCEPT ![g] = NoPath]
    /\ UNCHANGED <<is_running, processed_files, last_event_stale, gen, chan, native,
                   hb, poll, files, born_running, poll_reported, native_reported,
                   errors_recovered>>
    /\ UNCHANGED wframe

\* The environment: the game writes a replay, time passes, a file is removed.
CreateFile(path) ==
    /\ files[path] = "absent"
    /\ files' = [files EXCEPT ![path] = "fresh"]
    /\ born_running' = IF is_running THEN born_running \cup {path} ELSE born_running
    /\ UNCHANGED <<is_running, processed_files, last_event_stale, gen, chan, native,
                   hb, poll, proc, proc_path, cb_count, poll_reported, native_reported>>
    /\ UNCHANGED wstats
    /\ UNCHANGED wframe

AgeFile(path) ==
    /\ files[path] = "fresh"
    /\ files' = [files EXCEPT ![path] = "old"]
    /\ UNCHANGED <<is_running, processed_files, last_event_stale, gen, chan, native,
                   hb, poll, proc, proc_path, cb_count, born_running, poll_reported, native_reported>>
    /\ UNCHANGED wstats
    /\ UNCHANGED wframe

DeleteFile(path) ==
    /\ FileExists(path)
    /\ files' = [files EXCEPT ![path] = "gone"]
    /\ UNCHANGED <<is_running, processed_files, last_event_stale, gen, chan, native,
                   hb, poll, proc, proc_path, cb_count, born_running, poll_reported, native_reported>>
    /\ UNCHANGED wstats
    /\ UNCHANGED wframe

\* more than heartbeat_timeout_secs pass without a store to last_event_time
Silence ==
    /\ ~last_event_stale
    /\ last_event_stale' = TRUE
    /\ UNCHANGED <<is_running, processed_files, gen, chan, native, hb, poll, proc,
                   proc_path, files, cb_count, born_running, poll_reported, native_reported>>
    /\ UNCHANGED wstats
    /\ UNCHANGED wframe

WNext ==
    \/ Start
    \/ StartWhileRunning
    \/ Stop
    \/ \E g \in Gens : NativeEvent(g)
    \/ \E g \in Gens : NativeError(g)
    \/ \E g \in Gens : HeartbeatTick(g)
    \/ \E g \in Gens : PollTick(g)
    \/ \E g \in Gens : ProcRecv(g)
    \/ \E g \in Gens : ProcClosed(g)
    \/ \E g \in Gens : ProcSettled(g)
    \/ \E path \in ReplayPaths : CreateFile(path)
    \/ \E path \in ReplayPaths : AgeFile(path)
    \/ \E path \in ReplayPaths : DeleteFile(path)
    \/ Silence

\* no report of the path is queued or being settled
Quiescent(path) ==
    \A g \in Gens : path \notin Range(chan[g]) /\ proc_path[g] # path

\* C1: the callback is invoked at most once for any path, however often and
\* from however many sources the path is put on the channel.
C1_CallbackAtMostOncePerPath == \A p \in Paths : cb_count[p] <= 1

\* C1 witness: a path whose callback has run is on the channel once more.
C1_Witness ==
    \E p \in Paths, g \in Gens : cb_count[p] = 1 /\ p \in Range(chan[g])

\* C2 (as claimed): a replay created once while the watcher runs, still
\* existing, whose reports have all been handled, got exactly one callback.
C2_ExactlyOneCallbackPerCreatedFile ==
    \A p \in ReplayPaths :
        (is_running /\ p \in born_running /\ FileExists(p)
            /\ p \in processed_files /\ Quiescent(p))
        => cb_count[p] = 1

\* C3 (as claimed): a replay the native watcher did not report, put on the
\* channel by a fallback poll and still existing, is passed to the callback
\* once the event processor has handled the channel.
C3_PolledFileReachesCallback ==
    \A p \in ReplayPaths :
        (is_running /\ p \in poll_reported /\ p \notin native_reported
            /\ FileExists(p) /\ Quiescent(p))
        => cb_count[p] >= 1

\* C35: the event processor calls the callback for a path only at the end
\* of the settle delay it began when it inserted the path into
\* processed_files, and only if the path exists at that moment; a path that
\* is gone when the delay ends is dropped without a callback.
C35_CallbackAfterSettleIfExists ==
    [][ /\ \A p \in Paths :
              cb_count'[p] # cb_count[p] =>
                 /\ cb_count'[p] = cb_count[p] + 1
                 /\ p \in processed_files
                 /\ files[p] \in {"fresh", "old"}
                 /\ \E g \in Gens :
                       proc[g] = "settle" /\ proc_path[g] = p /\ proc'[g] = "idle"
        /\ \A g \in Gens :
              (/\ proc[g] = "settle" /\ proc'[g] # "settle"
               /\ files[proc_path[g]] \notin {"fresh", "old"})
                 => (cb_count' = cb_count /\ proc_path[g] \in dropped')
      ]_vars

\* C35 witness: one path has had its callback, another was deleted during
\* its settle delay and dropped.
C35_Witness ==
    \E p, q \in Paths : cb_count[p] = 1 /\ q \in dropped /\ cb_count[q] = 0

\* C36: an error the native watcher delivers is counted in errors_recovered
\* and stops nothing: the watcher stays as it was, and the native-event task
\* of a running watcher stays in its loop for the events that follow (the
\* task leaves after an event only when stop() has been called).
C36_NativeErrorIsCountedNotFatal ==
    [][ errors_recovered' # errors_recovered =>
           /\ errors_recovered' = errors_recovered + 1
           /\ is_running' = is_running
           /\ chan' = chan /\ processed_files' = processed_files
           /\ \A g \in Gens :
                 (native[g] = "run" /\ is_running) => native'[g] = "run"
      ]_vars

\* C36 witness: the native-event task of a running watcher has handled two
\* errors and is still in its loop.
C36_Witness ==
    \E g \in Gens : errors_recovered >= 2 /\ is_running /\ native[g] = "run"

\* the tasks of start() number g have all left their loops
AllExited(g) ==
    native[g] = "ended" /\ hb[g] = "ended" /\ poll[g] = "ended" /\ proc[g] = "ended"

\* what the tokio runtime guarantees: a task whose sleep has ended, or whose
\* channel holds a path, runs. That the operating system delivers another
\* event to the native watcher is not guaranteed.
WFairness ==
    \A g \in Gens :
        /\ WF_vars(HeartbeatTick(g))
        /\ WF_vars(PollTick(g))
        /\ WF_vars(ProcRecv(g))
        /\ WF_vars(ProcClosed(g))
        /\ WF_vars(ProcSettled(g))

\* C34: once stop has stored false in is_running and start is not called
\* again, the native-event task, the heartbeat monitor, the polling
\* fallback and the event processor each leave their loop.
C34_TasksExitAfterStop ==
    \A g \in Gens : (gen = MaxStarts /\ ~is_running) ~> AllExited(g)

(***************************************************************************)
(* The processed_files mutex in the polling fallback and in the event      *)
(* processor: file_watcher.rs                                              *)
(***************************************************************************)
PInit ==
    /\ pf_holder = "none"
    /\ processed = {}
    /\ poll_pc = "sleep"
    /\ poll_found = <<>>
    /\ proc_pc = "recv"
    /\ proc_cur = NoPath
    /\ pf_chan = <<>>
    /\ called = {}

\* the polling fallback after one found path: the next one, or the sleep of
\* the interval
PollAfter(rest) == IF rest = <<>> THEN "sleep" ELSE "lock"

\* the native-event task sends the path of an event
PfNativeSend(path) ==
    /\ Len(pf_chan) < MaxChan
    /\ pf_chan' = Append(pf_chan, path)
    /\ UNCHANGED <<pf_holder, processed, poll_pc, poll_found, proc_pc, proc_cur, called>>
    /\ UNCHANGED pframe

\* polling fallback: the sleep of the interval ends, poll_folders_for_replays
PfPollWake ==
    /\ poll_pc = "sleep"
    /\ \E S \in SUBSET ReplayPaths : \E list \in Orders(S) :
         /\ poll_found' = list
         /\ poll_pc' = PollAfter(list)
    /\ UNCHANGED <<pf_holder, processed, proc_pc, proc_cur, pf_chan, called>>
    /\ UNCHANGED pframe

\* polling fallback: processed_files.lock().await returns the guard
PfPollLock ==
    /\ poll_pc = "lock"
    /\ pf_holder = "none"
    /\ pf_holder' = "poll"
    /\ poll_pc' = "locked"
    /\ UNCHANGED <<processed, poll_found, proc_pc, proc_cur, pf_chan, called>>
    /\ UNCHANGED pframe

\* polling fallback: processed.contains(&path); a known path ends the
\* iteration, which drops the guard; for a new one tokio::fs::metadata is
\* awaited
PfPollContains ==
    /\ poll_pc = "locked"
    /\ IF Head(poll_found) \in processed
       THEN /\ pf_holder' = "none"
            /\ poll_found' = Tail(poll_found)
            /\ poll_pc' = PollAfter(Tail(poll_found))
       ELSE /\ poll_pc' = "metadata"
            /\ UNCHANGED <<pf_holder, poll_found>>
    /\ UNCHANGED <<processed, proc_pc, proc_cur, pf_chan, called>>
    /\ UNCHANGED pframe

\* polling fallback: the metadata read returns; a recently modified file is
\* inserted and the guard dropped before the send, else the iteration ends
PfPollMetadata ==
    /\ poll_pc = "metadata"
    /\ \E outcome \in {"error", "old", "recent"} :
         IF outcome = "recent"
         THEN /\ processed' = processed \cup {Head(poll_found)}
              /\ poll_pc' = "send"
              /\ UNCHANGED poll_found
         ELSE /\ poll_found' = Tail(poll_found)
              /\ poll_pc' = PollAfter(Tail(poll_found))
              /\ UNCHANGED processed
    /\ pf_holder' = "none"
    /\ UNCHANGED <<proc_pc, proc_cur, pf_chan, called>>
    /\ UNCHANGED pframe

\* polling fallback: tx.send(path).await
PfPollSend ==
    /\ poll_pc = "send"
    /\ Len(pf_chan) < MaxChan
    /\ pf_chan' = Append(pf_chan, Head(poll_found))
    /\ poll_found' = Tail(poll_found)
    /\ poll_pc' = PollAfter(Tail(poll_found))
    /\ UNCHANGED <<pf_holder, processed, proc_pc, proc_cur, called>>
    /\ UNCHANGED pframe

\* event processor: rx.recv().await returns a path
PfProcRecv ==
    /\ proc_pc = "recv"
    /\ pf_chan # <<>>
    /\ proc_cur' = Head(pf_chan)
    /\ pf_chan' = Tail(pf_chan)
    /\ proc_pc' = "lock"
    /\ UNCHANGED <<pf_holder, processed, poll_pc, poll_found, called>>
    /\ UNCHANGED pframe

\* event processor: processed_files.lock().await returns the guard
PfProcLock ==
    /\ proc_pc = "lock"
    /\ pf_holder = "none"
    /\ pf_holder' = "proc"
    /\ proc_pc' = "locked"
    /\ UNCHANGED <<processed, poll_pc, poll_found, proc_cur, pf_chan, called>>
    /\ UNCHANGED pframe

\* event processor: the test and the insert, and the end of the block that
\* holds the guard
PfProcTestAndInsert ==
    /\ proc_pc = "locked"
    /\ IF proc_cur \in processed
       THEN /\ proc_pc' = "recv"
            /\ proc_cur' = NoPath
            /\ UNCHANGED processed
       ELSE /\ processed' = processed \cup {proc_cur}
            /\ proc_pc' = "sleep"
            /\ UNCHANGED proc_cur
    /\ pf_holder' = "none"
    /\ UNCHANGED <<poll_pc, poll_found, pf_chan, called>>
    /\ UNCHANGED pframe

\* event processor: the settle delay ends; path.exists()
PfProcSlept ==
    /\ proc_pc = "sleep"
    /\ \E exists \in BOOLEAN :
         IF exists
         THEN proc_pc' = "callback" /\ UNCHANGED proc_cur
         ELSE proc_pc' = "recv" /\ proc_cur' = NoPath
    /\ UNCHANGED <<pf_holder, processed, poll_pc, poll_found, pf_chan, called>>
    /\ UNCHANGED pframe

\* event processor: callback(path) returns
PfProcCallback ==
    /\ proc_pc = "callback"
    /\ called' = called \cup {proc_cur}
    /\ proc_pc' = "recv"
    /\ proc_cur' = NoPath
    /\ UNCHANGED <<pf_holder, processed, poll_pc, poll_found, pf_chan>>
    /\ UNCHANGED pframe

PNext ==
    \/ \E path \in ReplayPaths : PfNativeSend(path)
    \/ PfPollWake
    \/ PfPollLock
    \/ PfPollContains
    \/ PfPollMetadata
    \/ PfPollSend
    \/ PfProcRecv
    \/ PfProcLock
    \/ PfProcTestAndInsert
    \/ PfProcSlept
    \/ PfProcCallback

\* C37: no task holds the guard of processed_files while it is suspended in
\* a file metadata read, a sleep, a channel send or receive, or while the
\* callback runs: the guard is held for the test and the insert only.
C37_GuardOnlyForTestAndInsert ==
    /\ poll_pc \in {"sleep", "metadata", "send"} => pf_holder # "poll"
    /\ proc_pc \in {"recv", "sleep", "callback"} => pf_holder # "proc"

(***************************************************************************)
(* UploadManager::start_watching and the start_file_watcher command:       *)
(* upload_manager.rs, commands/upload.rs                                   *)
(***************************************************************************)
Watchers == 1..MaxWatchers
EventKinds == {"create", "modify", "remove"}

MInit ==
    /\ is_watching = FALSE
    /\ watchers = 0
    /\ rx = [w \in Watchers |-> <<>>]
    /\ on_new_file_calls = [p \in FileNames |-> 0]
    /\ fs_events = 0
    /\ sw_result = "none"

\* the closure given to notify::recommended_watcher: the paths of one event
\* it sends on tx
Forwarded(ok, kind, path) ==
    IF ok /\ kind \in {"create", "modify"} /\ has_replay_extension(path)
    THEN <<path>>
    ELSE <<>>

\* start_watching: a channel, a watcher on the replay folder, is_watching,
\* and the task that receives the paths; an error of recommended_watcher or
\* of watch is returned before anything is changed
StartWatching ==
    \E outcome \in {"ok", "create_failed", "watch_failed"} :
      /\ sw_result' = outcome
      /\ IF outcome = "ok"
         THEN /\ watchers < MaxWatchers
              /\ watchers' = watchers + 1
              /\ is_watching' = TRUE
         ELSE UNCHANGED <<watchers, is_watching>>
      /\ UNCHANGED <<rx, on_new_file_calls, fs_events>>
      /\ UNCHANGED mframe

\* the operating system reports one event (or an error) of the folder: the
\* closure of every watcher runs on it
FsEvent ==
    /\ fs_events < MaxFsEvents
    /\ watchers > 0
    /\ \E ok \in BOOLEAN, kind \in EventKinds, path \in FileNames :
         /\ \A w \in 1..watchers :
               Len(rx[w]) + Len(Forwarded(ok, kind, path)) <= MaxChan
         /\ rx' = [w \in Watchers |->
                      IF w <= watchers THEN rx[w] \o Forwarded(ok, kind, path)
                      ELSE rx[w]]
    /\ fs_events' = fs_events + 1
    /\ UNCHANGED <<is_watching, watchers, on_new_file_calls, sw_result>>
    /\ UNCHANGED mframe

\* the spawned task: rx.recv() and on_new_file(path), which in
\* start_file_watcher emits new-replay-detected
OnNewFile(w) ==
    /\ w <= watchers
    /\ rx[w] # <<>>
    /\ on_new_file_calls' = [on_new_file_calls EXCEPT ![Head(rx[w])] = @ + 1]
    /\ rx' = [rx EXCEPT ![w] = Tail(rx[w])]
    /\ UNCHANGED <<is_watching, watchers, fs_events, sw_result>>
    /\ UNCHANGED mframe

MNext ==
    \/ StartWatching
    \/ FsEvent
    \/ \E w \in Watchers : OnNewFile(w)

\* C31: the callback of start_watching, and with it new-replay-detected,
\* fires at most once for a path, however many create and modify events
\* the operating system reports for it and however often start_watching is
\* called.
C31_CallbackOncePerPath ==
    \A p \in FileNames : on_new_file_calls[p] <= 1

(***************************************************************************)
(* RobustFileWatcher on the clock: start and stop, and the wakes of the    *)
(* heartbeat monitor and of the polling fallback: file_watcher.rs          *)
(***************************************************************************)
\* WatcherConfig::default
heartbeat_interval_secs == 60
heartbeat_timeout_secs == 300
poll_interval_secs == 120
\* the sleep of the polling fallback before its loop
first_poll_delay_secs == 10

Spawns == 1..MaxSpawns
\* no task of this spawn is asleep: not spawned yet, or ended
NoTask == -1
NoStart == [was_running |-> FALSE, result |-> "none",
            spawned_before |-> 0, spawned_after |-> 0, running_after |-> FALSE]

\* with_config: last_event_time is current_timestamp() of the construction
HInit ==
    /\ clock = 0
    /\ last_event_time = 0
    /\ watching = FALSE
    /\ spawned = 0
    /\ hb_wake = [g \in Spawns |-> NoTask]
    /\ poll_wake = [g \in Spawns |-> NoTask]
    /\ silent_since = 0
    /\ recovered = FALSE
    /\ last_start = NoStart

\* is_running.swap(true, SeqCst) returned true
AlreadyRunningNever == FALSE

AlreadyRunning == watching

\* start() that finds the flag false: the tasks are spawned
StartTimed ==
    /\ ~AlreadyRunning
    /\ spawned < MaxSpawns
    /\ watching' = TRUE
    /\ spawned' = spawned + 1
    /\ hb_wake' = [hb_wake EXCEPT ![spawned + 1] = clock + heartbeat_interval_secs]
    /\ poll_wake' = [poll_wake EXCEPT ![spawned + 1] =
                        clock + first_poll_delay_secs + poll_interval_secs]
    /\ silent_since' = clock
    /\ recovered' = FALSE
    /\ last_start' = [was_running |-> watching, result |-> "ok",
                      spawned_before |-> spawned, spawned_after |-> spawned + 1,
                      running_after |-> TRUE]
    /\ UNCHANGED <<clock, last_event_time>>
    /\ UNCHANGED hframe

\* start() that finds the flag true: Err, before the channel and the tasks
StartTimedWhileRunning ==
    /\ AlreadyRunning
    /\ last_start' = [was_running |-> watching, result |-> "err",
                      spawned_before |-> spawned, spawned_after |-> spawned,
                      running_after |-> TRUE]
    /\ watching' = TRUE
    /\ UNCHANGED <<clock, last_event_time, spawned, hb_wake, poll_wake,
                   silent_since, recovered>>
    /\ UNCHANGED hframe

\* stop()
StopTimed ==
    /\ watching' = FALSE
    /\ UNCHANGED <<clock, last_event_time, spawned, hb_wake, poll_wake,
                   silent_since, recovered, last_start>>
    /\ UNCHANGED hframe

\* the native watcher delivers an event or an error to its task
NativeDelivers ==
    /\ watching
    /\ last_event_time' = clock
    /\ silent_since' = clock
    /\ recovered' = FALSE
    /\ UNCHANGED <<clock, watching, spawned, hb_wake, poll_wake, last_start>>
    /\ UNCHANGED hframe

\* now.saturating_sub(last_event)
saturating_sub(a, b) == IF a > b THEN a - b ELSE 0

\* the heartbeat monitor of spawn g wakes: it ends when the flag is false,
\* else it compares the time since the last event with the timeout, and on
\* a timeout runs the recovery scan and resets last_event_time
HeartbeatWake(g) ==
    /\ hb_wake[g] # NoTask
    /\ clock >= hb_wake[g]
    /\ IF ~watching
       THEN /\ hb_wake' = [hb_wake EXCEPT ![g] = NoTask]
            /\ UNCHANGED <<last_event_time, recovered>>
       ELSE /\ hb_wake' = [hb_wake EXCEPT ![g] = clock + heartbeat_interval_secs]
            /\ IF saturating_sub(clock, last_event_time) > heartbeat_timeout_secs
               THEN /\ recovered' = TRUE
                    /\ last_event_time' = clock
               ELSE UNCHANGED <<last_event_time, recovered>>
    /\ UNCHANGED <<clock, watching, spawned, poll_wake, silent_since, last_start>>
    /\ UNCHANGED hframe

\* the polling fallback of spawn g wakes: it ends when the flag is false,
\* else it stores the current time in last_event_time and polls
PollWake(g) ==
    /\ poll_wake[g] # NoTask
    /\ clock >= poll_wake[g]
    /\ IF ~watching
       THEN /\ poll_wake' = [poll_wake EXCEPT ![g] = NoTask]
            /\ UNCHANGED last_event_time
       ELSE /\ poll_wake' = [poll_wake EXCEPT ![g] = clock + poll_interval_secs]
            /\ last_event_time' = clock
    /\ UNCHANGED <<clock, watching, spawned, hb_wake, silent_since, recovered,
                   last_start>>
    /\ UNCHANGED hframe

\* time passes; a task whose sleep is over runs before more time passes
Advance ==
    /\ clock + TimeStep <= MaxTime
    /\ \A g \in Spawns :
         /\ hb_wake[g] = NoTask \/ clock < hb_wake[g]
         /\ poll_wake[g] = NoTask \/ clock < poll_wake[g]
    /\ clock' = clock + TimeStep
    /\ UNCHANGED <<last_event_time, watching, spawned, hb_wake, poll_wake,
                   silent_since, recovered, last_start>>
    /\ UNCHANGED hframe

HNext ==
    \/ StartTimed
    \/ StartTimedWhileRunning
    \/ StopTimed
    \/ NativeDelivers
    \/ \E g \in Spawns : HeartbeatWake(g)
    \/ \E g \in Spawns : PollWake(g)
    \/ Advance

\* C14 (as claimed): once the watcher has been running without a native
\* event for longer than heartbeat_timeout plus one heartbeat interval, a
\* heartbeat wake has seen the timeout and run the recovery scan.
C14_SilenceLeadsToRecovery ==
    (watching /\ clock - silent_since
                    > heartbeat_timeout_secs + heartbeat_interval_secs)
        => recovered

\* C15: a start() that found the running flag true returned an error,
\* spawned no task and left the flag true.
C15_SecondStartSpawnsNothing ==
    last_start.was_running =>
        /\ last_start.result = "err"
        /\ last_start.spawned_after = last_start.spawned_before
        /\ last_start.running_after

\* C15 witness: the watcher runs with its one set of tasks asleep, and the
\* last start() call was made while it ran and returned an error.
C15_Witness ==
    /\ watching
    /\ last_start.was_running
    /\ last_start.result = "err"
    /\ spawned = 1
    /\ hb_wake[1] # NoTask /\ poll_wake[1] # NoTask
    /\ hb_wake[2] = NoTask /\ poll_wake[2] = NoTask

\* C39: the tasks spawned by a start() that was followed by stop() leave
\* at their next wake, also when start() was called again in between: a
\* heartbeat monitor or polling fallback of an earlier start() that wakes
\* does not go back to sleep, so no two of them keep running.
C39_StoppedTasksExit ==
    [][ \A g \in Spawns :
          g < spawned =>
             /\ hb_wake'[g] # hb_wake[g] => hb_wake'[g] = NoTask
             /\ poll_wake'[g] # poll_wake[g] => poll_wake'[g] = NoTask
      ]_vars

(***************************************************************************)
(* The tracker mutex and the manager-state mutex: upload_manager.rs and     *)
(* services/upload_executor.rs                                              *)
(***************************************************************************)
Threads == 1..NumThreads
Mutexes == {"tracker", "state"}

\* one step of a call: lock() of a mutex with what the code does with a
\* PoisonError, the end of a guard's scope, or an .await on a request
LockStep(m, on_poison) == [do |-> "lock", m |-> m, on_poison |-> on_poison]
DropStep(m) == [do |-> "drop", m |-> m, on_poison |-> ""]
AwaitStep(request) == [do |-> "await", m |-> request, on_poison |-> ""]

\* UploadManager::get_state: self.state.lock().unwrap(), clone
get_state == <<LockStep("state", "panic"), DropStep("state")>>

\* UploadManager::scan_and_upload with one replay to upload: its lock()
\* calls, the ends of their blocks, and its three .await points
scan_and_upload_guard_kept(upload_ok) ==
    <<LockStep("tracker", "panic"), DropStep("tracker"),
      AwaitStep("settings"), AwaitStep("check-hashes"),
      LockStep("state", "panic"), DropStep("state"),
      LockStep("state", "panic"),
      AwaitStep("upload"), DropStep("state")>>

scan_and_upload(upload_ok) ==
    <<LockStep("tracker", "panic"), DropStep("tracker"),
      AwaitStep("settings"), AwaitStep("check-hashes"),
      LockStep("state", "panic"), DropStep("state"),
      LockStep("state", "panic"), DropStep("state"),
      AwaitStep("upload")>> \o
    (IF upload_ok
     THEN <<LockStep("tracker", "panic"), DropStep("tracker"),
            LockStep("state", "panic"), LockStep("tracker", "panic"),
            DropStep("tracker"), DropStep("state"),
            LockStep("state", "panic"), DropStep("state")>>
     ELSE <<LockStep("state", "panic"), DropStep("state")>>)

\* UploadExecutor::handle_upload_success: lock().map_err(..)? three times
handle_upload_success ==
    <<LockStep("tracker", "err"), DropStep("tracker"),
      LockStep("tracker", "err"), LockStep("state", "err"),
      DropStep("state"), DropStep("tracker")>>

\* UploadExecutor::upload_single_replay: set_upload_status (if let Ok(..) =
\* lock()), the upload request, and handle_upload_success when it is Ok
upload_single_replay ==
    <<LockStep("state", "skip"), DropStep("state"), AwaitStep("upload")>>
        \o handle_upload_success

Operations == {"get_state", "scan_and_upload", "upload_single_replay"}

LIdle ==
    /\ holder = [m \in Mutexes |-> 0]
    /\ poisoned = [m \in Mutexes |-> FALSE]
    /\ lprog = [t \in Threads |-> <<>>]
    /\ lop = [t \in Threads |-> "none"]
    /\ lresult = [t \in Threads |-> "none"]
    /\ in_flight = [t \in Threads |-> "none"]
    /\ calls = [t \in Threads |-> 0]

Running(t) == lop[t] # "none" /\ lresult[t] = "none"

Held(t) == {m \in Mutexes : holder[m] = t}

\* the guards of a thread are dropped; a drop during a panic poisons
Released(t) == [m \in Mutexes |-> IF holder[m] = t THEN 0 ELSE holder[m]]
PoisonedBy(t) == [m \in Mutexes |-> poisoned[m] \/ holder[m] = t]

\* a thread enters one of the operations
Call(t) ==
    /\ ~Running(t)
    /\ calls[t] < MaxCalls
    /\ \E op \in Operations, upload_ok \in BOOLEAN :
         /\ lop' = [lop EXCEPT ![t] = op]
         /\ lprog' = [lprog EXCEPT ![t] =
                CASE op = "get_state" -> get_state
                  [] op = "scan_and_upload" -> scan_and_upload(upload_ok)
                  [] OTHER -> upload_single_replay]
    /\ lresult' = [lresult EXCEPT ![t] = "none"]
    /\ calls' = [calls EXCEPT ![t] = @ + 1]
    /\ UNCHANGED <<holder, poisoned, in_flight>>
    /\ UNCHANGED lframe

\* Mutex::lock returns: the guard, or a PoisonError that unwrap() turns into
\* a panic, map_err(..)? into an Err of the call, and if let Ok(..) into a
\* block that is not run
Lock(t) ==
    /\ Running(t) /\ in_flight[t] = "none" /\ lprog[t] # <<>>
    /\ Head(lprog[t]).do = "lock"
    /\ LET m == Head(lprog[t]).m IN
       /\ holder[m] = 0
       /\ IF ~poisoned[m]
          THEN /\ holder' = [holder EXCEPT ![m] = t]
               /\ lprog' = [lprog EXCEPT ![t] = Tail(@)]
               /\ UNCHANGED <<poisoned, lresult>>
          ELSE IF Head(lprog[t]).on_poison = "panic"
          THEN /\ holder' = Released(t)
               /\ poisoned' = PoisonedBy(t)
               /\ lresult' = [lresult EXCEPT ![t] = "panic_on_poisoned"]
               /\ UNCHANGED lprog
          ELSE IF Head(lprog[t]).on_poison = "err"
          THEN /\ holder' = Released(t)
               /\ lresult' = [lresult EXCEPT ![t] = "err_on_poisoned"]
               /\ UNCHANGED <<poisoned, lprog>>
          ELSE /\ lprog' = [lprog EXCEPT ![t] = Tail(@)]
               /\ UNCHANGED <<holder, poisoned, lresult>>
    /\ UNCHANGED <<lop, in_flight, calls>>
    /\ UNCHANGED lframe

\* the end of the block of a guard
Drop(t) ==
    /\ Running(t) /\ in_flight[t] = "none" /\ lprog[t] # <<>>
    /\ Head(lprog[t]).do = "drop"
    /\ holder' = [holder EXCEPT ![Head(lprog[t]).m] = IF @ = t THEN 0 ELSE @]
    /\ lprog' = [lprog EXCEPT ![t] = Tail(@)]
    /\ UNCHANGED <<poisoned, lop, lresult, in_flight, calls>>
    /\ UNCHANGED lframe

\* an .await: the request is sent and the task is suspended
Await(t) ==
    /\ Running(t) /\ in_flight[t] = "none" /\ lprog[t] # <<>>
    /\ Head(lprog[t]).do = "await"
    /\ in_flight' = [in_flight EXCEPT ![t] = Head(lprog[t]).m]
    /\ lprog' = [lprog EXCEPT ![t] = Tail(@)]
    /\ UNCHANGED <<holder, poisoned, lop, lresult, calls>>
    /\ UNCHANGED lframe

\* the answer of the request arrives and the task goes on
Resume(t) ==
    /\ Running(t) /\ in_flight[t] # "none"
    /\ in_flight' = [in_flight EXCEPT ![t] = "none"]
    /\ UNCHANGED <<holder, poisoned, lprog, lop, lresult, calls>>
    /\ UNCHANGED lframe

\* the call returns
Return(t) ==
    /\ Running(t) /\ in_flight[t] = "none" /\ lprog[t] = <<>>
    /\ lresult' = [lresult EXCEPT ![t] = "returned"]
    /\ UNCHANGED <<holder, poisoned, lprog, lop, in_flight, calls>>
    /\ UNCHANGED lframe

\* a thread panics inside a block in which it holds a guard
PanicHolding(t) ==
    /\ Running(t) /\ in_flight[t] = "none"
    /\ Held(t) # {}
    /\ holder' = Released(t)
    /\ poisoned' = PoisonedBy(t)
    /\ lresult' = [lresult EXCEPT ![t] = "panic"]
    /\ UNCHANGED <<lprog, lop, in_flight, calls>>
    /\ UNCHANGED lframe

LNext ==
    \/ \E t \in Threads : Call(t)
    \/ \E t \in Threads : Lock(t)
    \/ \E t \in Threads : Drop(t)
    \/ \E t \in Threads : Await(t)
    \/ \E t \in Threads : Resume(t)
    \/ \E t \in Threads : Return(t)
    \/ \E t \in Threads : PanicHolding(t)

\* C23 (as claimed): after a panic poisoned the tracker mutex or the state
\* mutex, no later call panics or returns an error because of the poisoned
\* lock: get_state returns, and the uploads go on.
C23_PoisonedLockIsRecovered ==
    \A t \in Threads : lresult[t] \notin {"panic_on_poisoned", "err_on_poisoned"}

\* C24: a task that is suspended on a request (settings, check-hashes,
\* upload) holds neither the tracker mutex nor the state mutex.
C24_NoGuardAcrossAwait ==
    \A t \in Threads : in_flight[t] # "none" => Held(t) = {}

\* C24 witness: one scan_and_upload is suspended on its upload request, after
\* the blocks that lock the tracker and the state, while another holds the
\* state mutex.
C24_Witness ==
    \E t \in Threads, u \in Threads :
        /\ lop[t] = "scan_and_upload"
        /\ in_flight[t] = "upload"
        /\ holder["state"] = u
        /\ u # t

\* thread t is blocked in, or about to call, lock() of mutex m
WaitsFor(t, m) ==
    /\ Running(t) /\ in_flight[t] = "none" /\ lprog[t] # <<>>
    /\ Head(lprog[t]).do = "lock" /\ Head(lprog[t]).m = m

\* C40: the tracker mutex and the state mutex are taken in one order
\* wherever both are held, so that no two calls block each other for ever:
\* never does one thread hold the tracker mutex and wait for the state
\* mutex while another holds the state mutex and waits for the tracker
\* mutex.
C40_NoLockOrderDeadlock ==
    \A t, u \in Threads :
        ~ /\ holder["tracker"] = t /\ WaitsFor(t, "state")
          /\ holder["state"] = u /\ WaitsFor(u, "tracker")

(***************************************************************************)
(* ReplayTracker and its document on disk: replay_tracker.rs               *)
(***************************************************************************)
tracker_file == "replays.json"

\* the path save_to_path writes before the rename
tmp_file_is_final == "replays.json"

tmp_file == "replays.json.tmp"

DiskPaths == {"replays.json", "replays.json.tmp"}

NoVersion == [form |-> "missing", value |-> ""]
FileOf(kind) ==
    [kind |-> kind, replays |-> {}, total_uploaded |-> 0, manifest_version |-> NoVersion]
AbsentFile == FileOf("absent")

\* ReplayTracker::new
ReplayTracker_new == [replays |-> {}, total_uploaded |-> 0, manifest_version |-> ""]

\* serde_json::to_string_pretty(self)
Serialize(t) ==
    [kind |-> "doc", replays |-> t.replays, total_uploaded |-> t.total_uploaded,
     manifest_version |-> [form |-> "string", value |-> t.manifest_version]]

\* a string is kept, an integer of the old format becomes the empty string,
\* and so does a missing field (serde default)
deserialize_manifest_version_reset(mv) == ""

deserialize_manifest_version(mv) ==
    IF mv.form = "string" THEN mv.value ELSE ""

\* load_from_path on a readable file: an absent file and a file that does not
\* parse give a new tracker
load_from_path_strict(c) ==
    IF c.kind = "doc" /\ c.manifest_version.form = "string"
    THEN [replays |-> c.replays, total_uploaded |-> c.total_uploaded,
          manifest_version |-> c.manifest_version.value]
    ELSE ReplayTracker_new

load_from_path(c) ==
    IF c.kind = "doc"
    THEN [replays |-> c.replays, total_uploaded |-> c.total_uploaded,
          manifest_version |-> deserialize_manifest_version(c.manifest_version)]
    ELSE ReplayTracker_new

\* a TrackedReplay, the value the replays map holds under its hash; the
\* tracker's replays field is the set of the values of the map
TrackedReplay(hash, filename, filesize, uploaded_at) ==
    [hash |-> hash, filename |-> filename, filesize |-> filesize,
     uploaded_at |-> uploaded_at]

\* no entry: the None of get_by_hash
NoEntry == TrackedReplay("", "", 0, 0)

\* ReplayTracker::is_uploaded: replays.contains_key(hash)
is_uploaded(t, hash) == \E r \in t.replays : r.hash = hash

\* ReplayTracker::get_by_hash
get_by_hash(t, hash) ==
    IF is_uploaded(t, hash) THEN CHOOSE r \in t.replays : r.hash = hash
    ELSE NoEntry

\* ReplayTracker::add_replay
add_replay_always(t, x) ==
    [t EXCEPT !.replays = @ \cup {x}, !.total_uploaded = @ + 1]

add_replay_overwrite(t, x) ==
    LET kept == {r \in t.replays : r.hash # x.hash} \cup {x}
    IN [t EXCEPT !.replays = kept, !.total_uploaded = Cardinality(kept)]

add_replay(t, x) ==
    IF ~is_uploaded(t, x.hash)
    THEN [t EXCEPT !.replays = @ \cup {x},
                   !.total_uploaded = Cardinality(t.replays \cup {x})]
    ELSE t

\* ReplayTracker::clear
clear_everything(t) == ReplayTracker_new

clear(t) == [t EXCEPT !.replays = {}, !.total_uploaded = 0]

\* ReplayTracker::set_manifest_version
set_manifest_version(t, version) == [t EXCEPT !.manifest_version = version]

\* the reading of the clock when an upload is recorded
uploaded_now == 1

(***************************************************************************)
(* UploadExecutor: services/upload_executor.rs, with the tracker and the   *)
(* manager state it shares between scan_and_upload invocations             *)
(***************************************************************************)
Invs == 1..NumInvocations

Hashes == {"h1", "h2"}

\* the replays a scan can prepare: hash, filename, game type, player name
Catalogue ==
    { [hash |-> "h1", filename |-> "a.SC2Replay", filesize |-> 40,
       game_type |-> "1v1-ladder", player_name |-> "Lotus409"],
      [hash |-> "h2", filename |-> "b.SC2Replay", filesize |-> 50,
       game_type |-> "1v1-ladder", player_name |-> "Lotus"] }

\* (game_type, player_name) keys in the order of the sort_by of
\* group_replays_by_type_and_player
SortedKeys ==
    << <<"1v1-ladder", "Lotus">>, <<"1v1-ladder", "Lotus409">>,
       <<"1v1-ladder", "Rival">>, <<"1v1-obs", "Lotus">>,
       <<"1v1-obs", "Other">>, <<"1v1-obs", "Rival">>,
       <<"2v2-ladder", "Lotus">>, <<"2v2-ladder", "Rival">> >>

KeyOf(r) == <<r.game_type, r.player_name>>

RECURSIVE SeqsNoRepeat(_, _)
SeqsNoRepeat(S, n) ==
    IF n = 0 THEN {<<>>}
    ELSE {<<>>} \cup
         UNION {{<<x>> \o rest : rest \in SeqsNoRepeat(S \ {x}, n - 1)} : x \in S}

\* the replays of the upload order that are in the group of one key
GroupOf(list, key) == SelectSeq(list, LAMBDA r : KeyOf(r) = key)

\* ReplayGroup
ReplayGroup(key, hashes) ==
    [game_type |-> key[1], player_name |-> key[2], hashes |-> hashes]

\* the groups of the keys from the k-th on: the hashes of the list that
\* replay_map holds under the key, pushed in the list's order; a key with no
\* hash has no entry in groups
RECURSIVE GroupsFrom(_, _, _)
GroupsFrom(hashes, map, k) ==
    IF k > Len(SortedKeys) THEN <<>>
    ELSE LET g == SelectSeq(hashes, LAMBDA h :
                      \E m \in map : m.hash = h /\ KeyOf(m) = SortedKeys[k])
         IN (IF g = <<>> THEN <<>> ELSE <<ReplayGroup(SortedKeys[k], g)>>)
                \o GroupsFrom(hashes, map, k + 1)

\* the groups in the order the hash map happens to yield them, unsorted
group_replays_unsorted(hashes, map) ==
    LET g == GroupsFrom(hashes, map, 1)
    IN [k \in 1..Len(g) |-> g[Len(g) + 1 - k]]

\* group_replays_by_type_and_player(hashes, replay_map): the groups, sorted
\* by game_type and then player_name
group_replays_by_type_and_player(hashes, map) == GroupsFrom(hashes, map, 1)

\* the hashes of the groups, in the order of the two nested upload loops
RECURSIVE Flatten(_)
Flatten(groups) ==
    IF groups = <<>> THEN <<>> ELSE Head(groups).hashes \o Flatten(Tail(groups))

\* the replays in the order in which the upload loops reach them: group by
\* group, each hash looked up in replay_map
UploadOrder(hashes, map) ==
    LET flat == Flatten(group_replays_by_type_and_player(hashes, map))
    IN [k \in 1..Len(flat) |-> CHOOSE m \in map : m.hash = flat[k]]

\* the answers of one upload request
NoResponse == [kind |-> "none", status |-> "", message |-> "", code |-> ""]
Responses ==
    { [kind |-> "ok", status |-> "", message |-> "", code |-> ""],
      [kind |-> "network_error", status |-> "", message |-> "", code |-> ""],
      [kind |-> "status", status |-> "409 Conflict",
       message |-> "Replay exists", code |-> ""],
      [kind |-> "status", status |-> "500 Internal Server Error",
       message |-> "Internal error", code |-> ""],
      [kind |-> "status", status |-> "502 Bad Gateway",
       message |-> "upstream timed out, request id 4091", code |-> ""],
      [kind |-> "rejected", status |-> "",
       message |-> "Duplicate replay", code |-> "REPLAY_DUPLICATE"],
      [kind |-> "rejected", status |-> "",
       message |-> "This replay has already been uploaded", code |-> "CONFLICT"],
      [kind |-> "rejected", status |-> "",
       message |-> "Replay file is corrupt", code |-> "INVALID_REPLAY"] }

\* the substrings, among those the executor looks for, of one piece of text
Needles(piece) ==
    CASE piece = "409 Conflict" -> {"409"}
      [] piece = "Lotus409" -> {"409"}
      [] piece = "upstream timed out, request id 4091" -> {"409"}
      [] piece = "REPLAY_DUPLICATE" -> {"REPLAY_DUPLICATE"}
      [] piece = "This replay has already been uploaded" -> {"already been uploaded"}
      [] OTHER -> {}

\* e.contains(needle), the error text being the concatenation of its pieces
Contains(e, needle) == \E k \in 1..Len(e) : needle \in Needles(e[k])

\* ReplayUploader::upload_replay: the Err text per answer; the request URL,
\* with the player_name and game_type query pairs, is part of a transport
\* error's text
upload_replay(r, resp) ==
    CASE resp.kind = "network_error" ->
            <<"Network error: ", "error sending request for url (",
              "/api/my-replays?player_name=", r.player_name, "&game_type=",
              r.game_type, ")">>
      [] resp.kind = "status" ->
            <<"Upload failed ", resp.status, ": ", resp.message>>
      [] resp.kind = "rejected" ->
            <<"Upload failed: ", resp.message, " (", resp.code, ")">>
      [] OTHER -> <<>>

\* the test of upload_single_replay on the Err text
TreatedAsDuplicateNever(e) == FALSE

TreatedAsDuplicate(e) ==
    \/ Contains(e, "409")
    \/ Contains(e, "REPLAY_DUPLICATE")
    \/ Contains(e, "already been uploaded")

\* the answer is a duplicate answer of the server: HTTP 409, error code
\* REPLAY_DUPLICATE, or a message containing "already been uploaded"
IsDuplicateAnswer(resp) ==
    \/ resp.kind = "status" /\ resp.status = "409 Conflict"
    \/ resp.kind = "rejected" /\ resp.code = "REPLAY_DUPLICATE"
    \/ resp.kind = "rejected" /\ Contains(<<resp.message>>, "already been uploaded")

\* usize::saturating_sub(1)
saturating_sub1(n) == IF n = 0 THEN 0 ELSE n - 1

NoStatus == [status |-> "none", filename |-> "", error |-> <<>>]
UploadStatus(status, filename, error) ==
    [status |-> status, filename |-> filename, error |-> error]

Event(name, filename, key, n, total, error) ==
    [name |-> name, filename |-> filename, key |-> key, n |-> n,
     total |-> total, error |-> error]

NoUpload ==
    [replay |-> [hash |-> "", filename |-> "", game_type |-> "", player_name |-> ""],
     resp |-> NoResponse, as |-> "none", tracked_before |-> FALSE,
     total_before |-> 0, total_after |-> 0, save_ok |-> FALSE, persisted |-> FALSE,
     pending_before |-> 0, pending_after |-> 0, status_after |-> NoStatus]

Current(i) == order[i][pos[i]]
FirstOfGroup(i, k) == k = 1 \/ KeyOf(order[i][k - 1]) # KeyOf(order[i][k])
LastOfGroup(i, k) == k = Len(order[i]) \/ KeyOf(order[i][k + 1]) # KeyOf(order[i][k])
GroupCount(i, k) == Len(GroupOf(order[i], KeyOf(order[i][k])))

\* a first run: no tracker document yet
KInit ==
    /\ tracker = ReplayTracker_new
    /\ disk = [f \in DiskPaths |-> AbsentFile]

EInit ==
    /\ state = [total_uploaded |-> 0, current_upload |-> NoStatus, pending_count |-> 0]
    /\ prepared = [i \in Invs |-> <<>>]
    /\ epc = [i \in Invs |-> "idle"]
    /\ order = [i \in Invs |-> <<>>]
    /\ pos = [i \in Invs |-> 0]
    /\ uploaded_count = [i \in Invs |-> 0]
    /\ result = [i \in Invs |-> "none"]
    /\ emitted = [i \in Invs |-> <<>>]
    /\ handled = [i \in Invs |-> NoUpload]

\* scan_and_upload, first half: the scan prepares up to MaxPrepared replays
\* whose hashes the tracker does not hold
Scan(i) ==
    /\ epc[i] = "idle"
    /\ \E p \in SeqsNoRepeat({r \in Catalogue : ~is_uploaded(tracker, r.hash)},
                             MaxPrepared) :
         prepared' = [prepared EXCEPT ![i] = p]
    /\ epc' = [epc EXCEPT ![i] = "scanned"]
    /\ UNCHANGED <<tracker, disk, state, order, pos, uploaded_count, result,
                   emitted, handled>>
    /\ UNCHANGED eframe

\* execute, up to the first upload: Ok(0) for an empty list, else the groups
\* and update_pending_count
Execute(i) ==
    /\ epc[i] = "scanned"
    /\ IF prepared[i] = <<>>
       THEN /\ result' = [result EXCEPT ![i] = "ok"]
            /\ epc' = [epc EXCEPT ![i] = "done"]
            /\ UNCHANGED <<state, order>>
       ELSE /\ order' = [order EXCEPT ![i] =
                            UploadOrder([k \in 1..Len(prepared[i]) |->
                                            prepared[i][k].hash],
                                        Range(prepared[i]))]
            /\ state' = [state EXCEPT !.pending_count = Len(prepared[i])]
            /\ epc' = [epc EXCEPT ![i] = "ready"]
            /\ UNCHANGED result
    /\ UNCHANGED <<tracker, disk, prepared, pos, uploaded_count, emitted, handled>>
    /\ UNCHANGED eframe

\* upload_single_replay up to the request: batch start for the first replay
\* of a group, status Uploading, upload-progress, the request is sent
BeginUpload(i) ==
    /\ epc[i] = "ready"
    /\ pos[i] < Len(order[i])
    /\ LET k == pos[i] + 1
           r == order[i][k]
           batch == IF FirstOfGroup(i, k)
                    THEN <<Event("upload-batch-start", "", KeyOf(r),
                                 GroupCount(i, k), Len(order[i]), <<>>)>>
                    ELSE <<>>
       IN /\ pos' = [pos EXCEPT ![i] = k]
          /\ state' = [state EXCEPT !.current_upload =
                          UploadStatus("uploading", r.filename, <<>>)]
          /\ emitted' = [emitted EXCEPT ![i] = @ \o batch \o
                          <<Event("upload-progress", r.filename, KeyOf(r), k,
                                  Len(order[i]), <<>>)>>]
    /\ epc' = [epc EXCEPT ![i] = "inflight"]
    /\ UNCHANGED <<tracker, disk, prepared, order, uploaded_count, result, handled>>
    /\ UNCHANGED eframe

\* the request returns Ok, or an Err the executor treats as a duplicate:
\* handle_upload_success, first lock section (add_replay and save)
UploadSuccess(i) ==
    /\ epc[i] = "inflight"
    /\ \E resp \in Responses, save_ok \in BOOLEAN :
         LET r == Current(i)
             e == upload_replay(r, resp)
             t == add_replay(tracker,
                     TrackedReplay(r.hash, r.filename, r.filesize, uploaded_now))
             d == IF save_ok
                  THEN [disk EXCEPT ![tracker_file] = Serialize(t)]
                  ELSE disk
         IN /\ resp.kind = "ok" \/ TreatedAsDuplicate(e)
            /\ tracker' = t
            /\ disk' = d
            /\ handled' = [handled EXCEPT ![i] =
                   [replay |-> r, resp |-> resp, as |-> "success",
                    tracked_before |-> is_uploaded(tracker, r.hash),
                    total_before |-> tracker.total_uploaded,
                    total_after |-> t.total_uploaded,
                    save_ok |-> save_ok,
                    persisted |-> is_uploaded(d[tracker_file], r.hash),
                    pending_before |-> state.pending_count,
                    pending_after |-> state.pending_count,
                    status_after |-> state.current_upload]]
            /\ IF save_ok
               THEN /\ epc' = [epc EXCEPT ![i] = "update_state"]
                    /\ UNCHANGED result
               ELSE /\ epc' = [epc EXCEPT ![i] = "done"]
                    /\ result' = [result EXCEPT ![i] = "err_save"]
    /\ UNCHANGED <<state, prepared, order, pos, uploaded_count, emitted>>
    /\ UNCHANGED eframe

\* handle_upload_success, second lock section, and the return to the loop:
\* batch complete after the last replay of a group
UpdateState(i) ==
    /\ epc[i] = "update_state"
    /\ LET k == pos[i]
           r == order[i][k]
       IN /\ state' = [total_uploaded |-> tracker.total_uploaded,
                       current_upload |-> UploadStatus("completed", r.filename, <<>>),
                       pending_count |-> saturating_sub1(state.pending_count)]
          /\ emitted' = [emitted EXCEPT ![i] =
                IF LastOfGroup(i, k)
                THEN Append(@, Event("upload-batch-complete", "", KeyOf(r),
                                     GroupCount(i, k), Len(order[i]), <<>>))
                ELSE @]
    /\ uploaded_count' = [uploaded_count EXCEPT ![i] = @ + 1]
    /\ epc' = [epc EXCEPT ![i] = "ready"]
    /\ UNCHANGED <<tracker, disk, prepared, order, pos, result, handled>>
    /\ UNCHANGED eframe

\* the request returns an Err the executor does not treat as a duplicate:
\* handle_upload_failure, and execute returns the error
UploadFailure(i) ==
    /\ epc[i] = "inflight"
    /\ \E resp \in Responses :
         LET r == Current(i)
             e == upload_replay(r, resp)
             failed == UploadStatus("failed", r.filename, e)
         IN /\ resp.kind # "ok"
            /\ ~TreatedAsDuplicate(e)
            /\ state' = [state EXCEPT !.current_upload = failed,
                             !.pending_count = saturating_sub1(@)]
            /\ emitted' = [emitted EXCEPT ![i] = Append(@,
                   Event("upload-error", r.filename, KeyOf(r), pos[i],
                         Len(order[i]), e))]
            /\ handled' = [handled EXCEPT ![i] =
                   [replay |-> r, resp |-> resp, as |-> "failure",
                    tracked_before |-> is_uploaded(tracker, r.hash),
                    total_before |-> tracker.total_uploaded,
                    total_after |-> tracker.total_uploaded,
                    save_ok |-> FALSE,
                    persisted |-> is_uploaded(disk[tracker_file], r.hash),
                    pending_before |-> state.pending_count,
                    pending_after |-> saturating_sub1(state.pending_count),
                    status_after |-> failed]]
    /\ result' = [result EXCEPT ![i] = "err_upload"]
    /\ epc' = [epc EXCEPT ![i] = "done"]
    /\ UNCHANGED <<tracker, disk, prepared, order, pos, uploaded_count>>
    /\ UNCHANGED eframe

\* every group is uploaded: clear_current_upload and Ok(uploaded_count)
ExecFinish(i) ==
    /\ epc[i] = "ready"
    /\ pos[i] = Len(order[i])
    /\ state' = [state EXCEPT !.current_upload = NoStatus]
    /\ result' = [result EXCEPT ![i] = "ok"]
    /\ epc' = [epc EXCEPT ![i] = "done"]
    /\ UNCHANGED <<tracker, disk, prepared, order, pos, uploaded_count, emitted,
                   handled>>
    /\ UNCHANGED eframe

ENext ==
    \/ \E i \in Invs : Scan(i)
    \/ \E i \in Invs : Execute(i)
    \/ \E i \in Invs : BeginUpload(i)
    \/ \E i \in Invs : UploadSuccess(i)
    \/ \E i \in Invs : UpdateState(i)
    \/ \E i \in Invs : UploadFailure(i)
    \/ \E i \in Invs : ExecFinish(i)

\* invocation i has an upload request that returned
Handled(i) == handled[i].as # "none"

\* execute returned an error from the last upload of invocation i
ErrorFrom(i) == result[i] \in {"err_upload", "err_save"}

\* C4: an upload answered with a duplicate answer runs the success handler:
\* its hash is in the tracker, total_uploaded is one higher than before iff
\* the hash was not tracked yet; when the save succeeds the hash is on disk,
\* no error is returned and the executor goes on; when the save fails the
\* save error is returned.
C4_DuplicateHandledAsSuccess ==
    \A i \in Invs :
        LET h == handled[i] IN
        (Handled(i) /\ IsDuplicateAnswer(h.resp)) =>
            /\ h.as = "success"
            /\ is_uploaded(tracker, h.replay.hash)
            /\ h.total_after = h.total_before + (IF h.tracked_before THEN 0 ELSE 1)
            /\ h.save_ok => (h.persisted /\ ~ErrorFrom(i))
            /\ ~h.save_ok => result[i] = "err_save"

\* C4 witness: a duplicate answer for an untracked hash was handled and
\* saved, the manager state is updated and the executor is back in its loop.
C4_Witness ==
    \E i \in Invs :
        /\ Handled(i)
        /\ IsDuplicateAnswer(handled[i].resp)
        /\ ~handled[i].tracked_before
        /\ handled[i].save_ok
        /\ epc[i] = "ready"

\* C4 (as claimed): after a duplicate answer the hash is tracked and saved,
\* total_uploaded is exactly one higher than before, and no error is returned.
C4_DuplicateAlwaysPlusOneNoError ==
    \A i \in Invs :
        LET h == handled[i] IN
        (Handled(i) /\ IsDuplicateAnswer(h.resp)) =>
            /\ h.as = "success"
            /\ is_uploaded(tracker, h.replay.hash)
            /\ h.persisted
            /\ h.total_after = h.total_before + 1
            /\ ~ErrorFrom(i)

\* C5 (as claimed): an upload that failed for a reason other than a duplicate
\* set current_upload to Failed, took one off pending_count, emitted
\* upload-error, made execute return the error, and was the last request of
\* its invocation.
C5_FailureAbortsInvocation ==
    \A i \in Invs :
        LET h == handled[i] IN
        (Handled(i) /\ h.resp.kind # "ok" /\ ~IsDuplicateAnswer(h.resp)) =>
            /\ h.as = "failure"
            /\ h.status_after.status = "failed"
            /\ h.status_after.filename = h.replay.filename
            /\ h.pending_after = h.pending_before - 1
            /\ emitted[i][Len(emitted[i])].name = "upload-error"
            /\ epc[i] = "done"
            /\ result[i] = "err_upload"

\* C33: the executor adds a replay to the tracker only after a request that
\* succeeded or that the server answered as a duplicate (HTTP 409, code
\* REPLAY_DUPLICATE, or a message with "already been uploaded"): never
\* after a transport error or an answer with another HTTP status, whatever
\* the text of the error.
C33_TrackedOnlyAfterSuccessOrDuplicate ==
    \A i \in Invs :
        LET h == handled[i] IN
        (Handled(i) /\ h.as = "success") =>
            /\ is_uploaded(tracker, h.replay.hash)
            /\ h.resp.kind = "ok" \/ IsDuplicateAnswer(h.resp)

\* C38: whenever execute returns Ok, the manager state has no current
\* upload and a pending_count of 0, whatever the invocations before it did.
C38_OkLeavesStateCleared ==
    [][ \A i \in Invs :
          (result[i] # "ok" /\ result'[i] = "ok") =>
             /\ state'.current_upload = NoStatus
             /\ state'.pending_count = 0
      ]_vars

\* C6 (as claimed): at most one upload request is in flight at any moment,
\* over all scan_and_upload invocations.
C6_OneRequestInFlight ==
    Cardinality({i \in Invs : epc[i] = "inflight"}) <= 1

(***************************************************************************)
(* The tracker's operations and the steps of save_to_path                  *)
(***************************************************************************)
Versions == {"2026-02-02T00:00:00Z"}

\* the replays the tracker is given: two files, the first recorded at one
\* of two times
UploadTimes == {1, 2}
TrackedReplays ==
    {TrackedReplay("h1", "a.SC2Replay", 40, at) : at \in UploadTimes} \cup
    {TrackedReplay("h2", "b.SC2Replay", 50, 1)}

\* what replays.json can hold when the process starts: nothing, a document
\* of an earlier save, a document of the old format (integer
\* manifest_version, or none), or bytes that do not parse
InitialDocuments ==
    { AbsentFile, FileOf("corrupt"),
      Serialize([replays |-> {TrackedReplay("h1", "a.SC2Replay", 40, 1)},
                 total_uploaded |-> 1,
                 manifest_version |-> "2026-01-01T00:00:00Z"]),
      [kind |-> "doc",
       replays |-> {TrackedReplay("h1", "a.SC2Replay", 40, 1),
                    TrackedReplay("h2", "b.SC2Replay", 50, 1)},
       total_uploaded |-> 2,
       manifest_version |-> [form |-> "integer", value |-> "3"]],
      [kind |-> "doc", replays |-> {TrackedReplay("h2", "b.SC2Replay", 50, 1)},
       total_uploaded |-> 1, manifest_version |-> NoVersion] }

TIdle ==
    /\ tpc = "idle"
    /\ save_contents = AbsentFile
    /\ final_before = AbsentFile
    /\ save_returned = "none"
    /\ last_op = "new"

TInit ==
    /\ tracker = ReplayTracker_new
    /\ disk \in [DiskPaths -> InitialDocuments \cup {FileOf("partial")}]
    /\ disk["replays.json"] \in InitialDocuments
    /\ disk["replays.json.tmp"] \in {AbsentFile, FileOf("partial")}
    /\ tpc = "down"
    /\ save_contents = disk["replays.json"]
    /\ final_before = disk["replays.json"]
    /\ save_returned = "none"
    /\ last_op = "new"

\* ReplayTracker::load at start-up, or a later load into the shared tracker:
\* Err when the file exists and cannot be read; "reload" is the load of the
\* document a save of this process has just written
Load ==
    /\ tpc \in {"down", "idle"}
    /\ \E readable \in BOOLEAN :
         IF disk[tracker_file].kind # "absent" /\ ~readable
         THEN /\ last_op' = "load_failed"
              /\ UNCHANGED <<tracker, tpc>>
         ELSE /\ tracker' = load_from_path(disk[tracker_file])
              /\ tpc' = "idle"
              /\ last_op' = IF last_op = "save" THEN "reload" ELSE "load"
    /\ UNCHANGED <<disk, save_contents, final_before, save_returned>>
    /\ UNCHANGED tframe

New ==
    /\ tpc = "idle"
    /\ tracker' = ReplayTracker_new
    /\ last_op' = "new"
    /\ UNCHANGED <<disk, tpc, save_contents, final_before, save_returned>>
    /\ UNCHANGED tframe

AddReplay(x) ==
    /\ tpc = "idle"
    /\ tracker' = add_replay(tracker, x)
    /\ last_op' = IF is_uploaded(tracker, x.hash) THEN "add_present" ELSE "add"
    /\ UNCHANGED <<disk, tpc, save_contents, final_before, save_returned>>
    /\ UNCHANGED tframe

Clear ==
    /\ tpc = "idle"
    /\ tracker' = clear(tracker)
    /\ last_op' = "clear"
    /\ UNCHANGED <<disk, tpc, save_contents, final_before, save_returned>>
    /\ UNCHANGED tframe

SetManifestVersion(version) ==
    /\ tpc = "idle"
    /\ tracker' = set_manifest_version(tracker, version)
    /\ last_op' = "set_manifest_version"
    /\ UNCHANGED <<disk, tpc, save_contents, final_before, save_returned>>
    /\ UNCHANGED tframe

\* save_to_path: the tmp path and the serialized contents
SaveBegin ==
    /\ tpc = "idle"
    /\ save_contents' = Serialize(tracker)
    /\ final_before' = disk[tracker_file]
    /\ save_returned' = "none"
    /\ tpc' = "create"
    /\ UNCHANGED <<tracker, disk, last_op>>
    /\ UNCHANGED tframe

\* fs::File::create(&tmp_file): an empty file, or an error
SaveCreate ==
    /\ tpc = "create"
    /\ \E ok \in BOOLEAN :
         IF ok
         THEN /\ disk' = [disk EXCEPT ![tmp_file] = FileOf("empty")]
              /\ tpc' = "write"
              /\ UNCHANGED save_returned
         ELSE /\ save_returned' = "err"
              /\ tpc' = "idle"
              /\ UNCHANGED disk
    /\ UNCHANGED <<tracker, save_contents, final_before, last_op>>
    /\ UNCHANGED tframe

\* tmp.write_all(contents): all of it, or an error after part of it
SaveWrite ==
    /\ tpc = "write"
    /\ \E ok \in BOOLEAN :
         IF ok
         THEN /\ disk' = [disk EXCEPT ![tmp_file] = save_contents]
              /\ tpc' = "sync"
              /\ UNCHANGED save_returned
         ELSE /\ \E left \in {"empty", "partial"} :
                    disk' = [disk EXCEPT ![tmp_file] = FileOf(left)]
              /\ save_returned' = "err"
              /\ tpc' = "idle"
    /\ UNCHANGED <<tracker, save_contents, final_before, last_op>>
    /\ UNCHANGED tframe

\* tmp.sync_all() and drop(tmp)
SaveSync ==
    /\ tpc = "sync"
    /\ \E ok \in BOOLEAN :
         IF ok
         THEN /\ tpc' = "rename"
              /\ UNCHANGED save_returned
         ELSE /\ save_returned' = "err"
              /\ tpc' = "idle"
    /\ UNCHANGED <<tracker, disk, save_contents, final_before, last_op>>
    /\ UNCHANGED tframe

\* fs::rename(&tmp_file, tracker_file), with the best-effort removal of the
\* tmp file when it fails
SaveRename ==
    /\ tpc = "rename"
    /\ \E ok \in BOOLEAN, removed \in BOOLEAN :
         IF ok
         THEN /\ disk' = [f \in DiskPaths |->
                            IF f = tracker_file THEN disk[tmp_file]
                            ELSE AbsentFile]
              /\ save_returned' = "ok"
              /\ last_op' = "save"
         ELSE /\ disk' = IF removed THEN [disk EXCEPT ![tmp_file] = AbsentFile]
                         ELSE disk
              /\ save_returned' = "err"
              /\ UNCHANGED last_op
    /\ tpc' = "idle"
    /\ UNCHANGED <<tracker, save_contents, final_before>>
    /\ UNCHANGED tframe

\* the process stops: the tracker in memory is gone; a tmp file that was
\* written and not yet synced may be cut short
Crash ==
    /\ tpc # "down"
    /\ tpc' = "down"
    /\ tracker' = ReplayTracker_new
    /\ \E cut \in BOOLEAN :
         disk' = IF cut /\ tpc = "sync"
                 THEN [disk EXCEPT ![tmp_file] = FileOf("partial")]
                 ELSE disk
    /\ save_returned' = IF tpc = "idle" THEN save_returned ELSE "none"
    /\ last_op' = "new"
    /\ UNCHANGED <<save_contents, final_before>>
    /\ UNCHANGED tframe

TNext ==
    \/ Load
    \/ New
    \/ \E x \in TrackedReplays : AddReplay(x)
    \/ Clear
    \/ \E version \in Versions : SetManifestVersion(version)
    \/ SaveBegin
    \/ SaveCreate
    \/ SaveWrite
    \/ SaveSync
    \/ SaveRename
    \/ Crash

\* C7: total_uploaded equals the number of entries of the replays map in
\* every state of the tracker, whatever operations led to it.
C7_TotalEqualsEntries ==
    tracker.total_uploaded = Cardinality(tracker.replays)

\* C7 witness: a tracker loaded from a document of the old format, holding
\* two replays.
C7_Witness ==
    /\ last_op = "load"
    /\ Cardinality(tracker.replays) = 2
    /\ disk[tracker_file].manifest_version.form = "integer"

\* C8: replays.json holds the complete document it held before the last
\* save began or the complete document of that save, never a cut one; and
\* after a save that returned Ok no replays.json.tmp remains.
C8_SaveIsAtomic ==
    /\ disk[tracker_file] \in {final_before, save_contents}
    /\ disk[tracker_file].kind \notin {"empty", "partial"}
    /\ (save_returned = "ok" /\ tpc = "idle") => disk["replays.json.tmp"].kind = "absent"

\* C8 witness: a save returned Ok and replaced an earlier, different document.
C8_Witness ==
    /\ save_returned = "ok"
    /\ final_before.kind = "doc"
    /\ final_before # save_contents
    /\ disk[tracker_file] = save_contents

\* C16: an add_replay of a hash the tracker holds changes nothing, the entry
\* under the hash included; an add_replay that changes the tracker inserts
\* the given replay under a hash that was not tracked, keeps every other
\* entry, raises total_uploaded by one, and a second add_replay of the same
\* replay changes nothing more.
C16_AddIsIdempotentOnHash ==
    [][ /\ last_op' = "add_present" => tracker' = tracker
        /\ (last_op' = "add" /\ tracker' # tracker) =>
             \E x \in tracker'.replays :
                 /\ ~is_uploaded(tracker, x.hash)
                 /\ tracker'.replays = tracker.replays \cup {x}
                 /\ get_by_hash(tracker', x.hash) = x
                 /\ tracker'.total_uploaded = tracker.total_uploaded + 1
                 /\ add_replay(tracker', x) = tracker'
                 /\ get_by_hash(add_replay(tracker', x), x.hash) = x ]_vars

\* C16 witness: the last operation was an add_replay of a hash the tracker
\* held, and the entry under that hash is the one of the earlier time.
C16_Witness ==
    /\ last_op = "add_present"
    /\ get_by_hash(tracker, "h1") = TrackedReplay("h1", "a.SC2Replay", 40, 1)
    /\ tracker.total_uploaded = 2

\* C17: clear leaves the tracker with no replay and total_uploaded = 0, and
\* with the manifest_version it had before the call.
C17_ClearKeepsManifestVersion ==
    [][ last_op' = "clear" =>
          /\ tracker'.replays = {}
          /\ tracker'.total_uploaded = 0
          /\ tracker'.manifest_version = tracker.manifest_version ]_vars

\* C17 witness: a tracker just cleared that holds a manifest version, while
\* the document saved before the clear holds replays and that version.
C17_Witness ==
    /\ last_op = "clear"
    /\ tracker.manifest_version \in Versions
    /\ disk[tracker_file].kind = "doc"
    /\ disk[tracker_file].replays # {}
    /\ disk[tracker_file].manifest_version.value = tracker.manifest_version

\* C18: for every tracker value, loading the document save writes for it
\* gives the same value again, and so does a further save and load; and the
\* tracker loaded from the document of the last save of the process
\* serialises to that document.
C18_SaveLoadRoundTrip ==
    /\ load_from_path(Serialize(tracker)) = tracker
    /\ load_from_path(Serialize(load_from_path(Serialize(tracker)))) = tracker
    /\ last_op = "reload" =>
         /\ disk[tracker_file] = save_contents
         /\ Serialize(tracker) = save_contents

\* C18 witness: a tracker with two replays and a manifest version, loaded
\* from the document a save has just written.
C18_Witness ==
    /\ last_op = "reload"
    /\ Cardinality(tracker.replays) = 2
    /\ tracker.manifest_version \in Versions

\* the values an integer manifest_version of the old format can have
LegacyVersions == {"0", "3", "-1", "4294967295"}

\* C19: a tracker just loaded from a document holds the replays and the
\* total_uploaded of the document; its manifest_version is the document's
\* when that is a string, and "" when it is an integer of any value or is
\* missing.
C19_IntegerVersionLoadsEmpty ==
    /\ \A v \in LegacyVersions :
         deserialize_manifest_version([form |-> "integer", value |-> v]) = ""
    /\ (last_op \in {"load", "reload"} /\ disk[tracker_file].kind = "doc") =>
         LET doc == disk[tracker_file] IN
         /\ tracker.replays = doc.replays
         /\ tracker.total_uploaded = doc.total_uploaded
         /\ tracker.manifest_version =
              (IF doc.manifest_version.form = "string"
               THEN doc.manifest_version.value ELSE "")

\* C19 witness: a tracker just loaded from a document with an integer
\* manifest_version holds both replays of the document and no version.
C19_Witness ==
    /\ last_op = "load"
    /\ disk[tracker_file].manifest_version = [form |-> "integer", value |-> "3"]
    /\ tracker.total_uploaded = 2
    /\ tracker.manifest_version = ""

\* C20 (as claimed): no load returns Err, and a load of an absent file or
\* of a file that does not parse gives an empty tracker.
C20_LoadNeverFails ==
    /\ last_op # "load_failed"
    /\ (last_op \in {"load", "reload"} /\ disk[tracker_file].kind # "doc") =>
         tracker = ReplayTracker_new

(***************************************************************************)
(* ReplayScanner: services/replay_scanner.rs, with the parser's game types *)
(* and detect_user_player_names                                            *)
(***************************************************************************)
Player(name, is_observer) == [name |-> name, is_observer |-> is_observer]

\* the replay files of the watched folders: what scan_replay_folder reads of
\* a file, and what the parser and the hasher make of its contents
ScanFiles ==
    { [path |-> "A/a.SC2Replay", folder |-> "A", filename |-> "a.SC2Replay",
       filesize |-> 40, modified_time |-> 4, game_type |-> "1v1-ladder",
       players |-> <<Player("Lotus", FALSE), Player("Rival", FALSE)>>,
       hash |-> "h1"],
      [path |-> "A/b.SC2Replay", folder |-> "A", filename |-> "b.SC2Replay",
       filesize |-> 50, modified_time |-> 3, game_type |-> "1v1-obs",
       players |-> <<Player("Rival", FALSE), Player("Other", FALSE),
                     Player("Lotus", TRUE)>>,
       hash |-> "h2"],
      [path |-> "B/c.SC2Replay", folder |-> "B", filename |-> "c.SC2Replay",
       filesize |-> 60, modified_time |-> 2, game_type |-> "1vAI",
       players |-> <<Player("Lotus", FALSE)>>,
       hash |-> "h3"],
      [path |-> "B/a.SC2Replay", folder |-> "B", filename |-> "a.SC2Replay",
       filesize |-> 40, modified_time |-> 1, game_type |-> "2v2-ladder",
       players |-> <<Player("Rival", FALSE), Player("Lotus", FALSE)>>,
       hash |-> "h4"] }

ScanHashes == {f.hash : f \in ScanFiles}

\* GameType::should_upload, on the as_str form of the type
should_upload(game_type) ==
    game_type \in {"1v1-ladder", "1v1-unranked", "1v1-private", "1v1-obs",
                   "2v2-ladder", "2v2-unranked", "2v2-private", "2v2-obs"}

\* ReplayTracker::exists_by_metadata
exists_by_metadata(t, filename, filesize) ==
    \E r \in t.replays : r.filename = filename /\ r.filesize = filesize

\* replays.sort_by(|a, b| b.modified_time.cmp(&a.modified_time))
RECURSIVE SortNewestFirst(_)
SortNewestFirst(S) ==
    IF S = {} THEN <<>>
    ELSE LET f == CHOOSE g \in S : \A h \in S : h.modified_time <= g.modified_time
         IN <<f>> \o SortNewestFirst(S \ {f})

\* iter.take(n)
Take(seq, n) == SubSeq(seq, 1, IF n < Len(seq) THEN n ELSE Len(seq))

\* scan_all_folders: a folder whose scan_replay_folder fails is left out
scan_all_folders(bad) ==
    {f \in ScanFiles : ~\E g \in bad : g.folder = f.folder}

\* the names of the players of one replay that are not observers, in order
ActiveNames(f) ==
    LET a == SelectSeq(f.players, LAMBDA pl : ~pl.is_observer)
    IN [k \in 1..Len(a) |-> a[k].name]

\* the sum of weight[f] over the replays of data
RECURSIVE SumOver(_, _)
SumOver(data, weight) ==
    IF data = <<>> THEN 0 ELSE weight[Head(data)] + SumOver(Tail(data), weight)

\* PlayerStats::frequency
frequency(data, name) ==
    SumOver(data, [f \in Range(data) |->
        Cardinality({k \in 1..Len(ActiveNames(f)) : ActiveNames(f)[k] = name})])

\* PlayerStats::co_occurrences of name, entry other
co_occurrences(data, name, other) ==
    SumOver(data, [f \in Range(data) |->
        LET a == ActiveNames(f) IN
        Cardinality({ij \in (1..Len(a)) \X (1..Len(a)) :
                        ij[1] # ij[2] /\ a[ij[1]] = name /\ a[ij[2]] = other})])

\* p.name.eq_ignore_ascii_case(ai_name) for one of the AI names
IsAIName(name) ==
    name \in {"Computer", "computer", "A.I.", "a.i.", "AI", "ai", "Bot", "bot"}

\* into_values() in any order, then the stable sort by frequency, descending
SortedPlayers(data) ==
    LET names == UNION {{ActiveNames(f)[k] : k \in 1..Len(ActiveNames(f))} :
                          f \in Range(data)}
    IN {o \in Orders(names) :
          \A a \in 1..Len(o) : \A b \in a..Len(o) :
              frequency(data, o[a]) >= frequency(data, o[b])}

\* the candidates of one sorted list, after the AI names are removed
Candidates(data, o) ==
    LET kept == SelectSeq(o, LAMBDA n : ~IsAIName(n))
        ok(idx) ==
            /\ frequency(data, kept[idx]) > 1
            /\ \A h \in 1..(idx - 1) :
                 co_occurrences(data, kept[idx], kept[h]) > 0 =>
                   2 * co_occurrences(data, kept[idx], kept[h])
                       <= frequency(data, kept[idx])
        RECURSIVE From(_)
        From(idx) ==
            IF idx > Len(kept) THEN <<>>
            ELSE (IF ok(idx) THEN <<kept[idx]>> ELSE <<>>) \o From(idx + 1)
    IN From(1)

\* detect_user_player_names: the lists it can return for the parsed replays
detect_user_player_names(data) ==
    IF data = <<>> THEN {<<>>}
    ELSE {Candidates(data, o) : o \in SortedPlayers(data)}

\* find_user_in_game: the first player that is not an observer and whose
\* name is in the hint
find_user_in_game_any(players, user_names) ==
    LET hits == SelectSeq(players, LAMBDA pl : pl.name \in Range(user_names))
    IN IF hits = <<>> THEN "" ELSE hits[1].name

find_user_in_game(players, user_names) ==
    LET hits == SelectSeq(players,
                    LAMBDA pl : ~pl.is_observer /\ pl.name \in Range(user_names))
    IN IF hits = <<>> THEN "" ELSE hits[1].name

\* the player_names argument: the names the settings hold, or none
HintChoices == {<<>>, <<"Lotus">>, <<"Rival", "Lotus">>}

SIdle ==
    /\ scan_pc = "idle"
    /\ scan_limit = 1
    /\ player_names = <<>>
    /\ todo = <<>>
    /\ hash_infos = <<>>
    /\ replay_map = {}
    /\ scan_result = "none"
    /\ prepared_replays = <<>>
    /\ check_failed = FALSE
    /\ meta_failed = {}
    /\ listed = {}
    /\ hashed = {}
    /\ net_calls = <<>>
    /\ new_hashes = <<>>
    /\ su_pos = 0
    /\ su_uploaded = 0
    /\ su_result = "none"
    /\ scan_tracker = ReplayTracker_new
    /\ su_error = ""
    /\ su_events = <<>>

\* the tracker of the scan: any replays of earlier uploads
SInit ==
    /\ SIdle
    /\ \E S \in SUBSET {"h1", "h3"} :
         tracker = [replays |-> {TrackedReplay(f.hash, f.filename, f.filesize,
                                               uploaded_now) :
                                   f \in {g \in ScanFiles : g.hash \in S}},
                    total_uploaded |-> Cardinality(S),
                    manifest_version |-> ""]
    /\ disk = [f \in DiskPaths |-> AbsentFile]

\* the replays of a list whose players the detection could parse
ParsedOf(recent, unparsed) == SelectSeq(recent, LAMBDA f : f \notin unparsed)

\* the hint of the scan: the argument, or the detected names when it is empty
DetectedHints(names, recent, unparsed) ==
    IF names = <<>> THEN detect_user_player_names(ParsedOf(recent, unparsed))
    ELSE {names}

\* a request of the scan or of the uploads that follow it
Request(op, hashes) == [op |-> op, hashes |-> hashes]

\* the hashes the server can name in new_hashes: hashes of the request in
\* any order, and a hash the request did not hold
ForeignHash == "h9"
ServerAnswers(sent) == SeqsNoRepeat(Range(sent) \cup {ForeignHash}, MaxNewHashes)

\* filter_and_hash_replays: a replay is skipped before calculate_hash when a
\* read of the parser fails, when its game type is not uploaded, when the
\* user is not an active player, or when the tracker knows its metadata
SkippedBeforeHashNever(f, name, type_ok, players_ok) == FALSE

SkippedBeforeHash(f, name, type_ok, players_ok) ==
    \/ ~type_ok
    \/ ~should_upload(f.game_type)
    \/ ~players_ok
    \/ name = ""
    \/ exists_by_metadata(scan_tracker, f.filename, f.filesize)

\* new_hashes.into_iter().take(limit).filter_map(|hash| replay_map.get(&hash))
PreparedNoLimit(answer, limit, map) ==
    LET known == SelectSeq(answer, LAMBDA h : \E m \in map : m.hash = h)
    IN [k \in 1..Len(known) |-> CHOOSE m \in map : m.hash = known[k]]

Prepared(answer, limit, map) ==
    LET known == SelectSeq(Take(answer, limit), LAMBDA h : \E m \in map : m.hash = h)
    IN [k \in 1..Len(known) |-> CHOOSE m \in map : m.hash = known[k]]

\* scan_and_prepare up to the filter loop: the tracker is cloned, the folders
\* are scanned (a file whose metadata cannot be read fails its folder), the
\* recent replays are taken, and the names are detected when none are given
ScanStart ==
    /\ scan_pc = "idle"
    /\ scan_tracker' = tracker
    /\ \E limit \in 1..MaxPrepared :
         /\ scan_limit' = limit
         /\ su_events' = <<Event("upload-start", "", <<>>, limit, 0, <<>>)>>
    /\ \E names \in HintChoices,
          bad \in {B \in SUBSET ScanFiles : Cardinality(B) <= 1},
          unparsed \in {B \in SUBSET ScanFiles : Cardinality(B) <= 1} :
         LET all_replays == scan_all_folders(bad)
             recent == Take(SortNewestFirst(all_replays), scan_limit' * 2)
         IN /\ meta_failed' = bad
            /\ listed' = all_replays
            /\ IF all_replays = {}
               THEN /\ scan_result' = "ok"
                    /\ su_result' = "ok"
                    /\ scan_pc' = "done"
                    /\ UNCHANGED <<player_names, todo>>
               ELSE /\ \E hint \in DetectedHints(names, recent, unparsed) :
                         player_names' = hint
                    /\ todo' = recent
                    /\ scan_pc' = "filter"
                    /\ UNCHANGED <<scan_result, su_result>>
    /\ UNCHANGED <<hash_infos, replay_map, prepared_replays, check_failed,
                   hashed, net_calls, new_hashes, su_pos, su_uploaded,
                   su_error>>
    /\ UNCHANGED sframe

\* one pass of the loop of filter_and_hash_replays; each read of the file
\* can fail
FilterStep ==
    /\ scan_pc = "filter"
    /\ todo # <<>>
    /\ \E type_ok \in BOOLEAN, players_ok \in BOOLEAN, hash_ok \in BOOLEAN :
         LET f == Head(todo)
             name == find_user_in_game(f.players, player_names)
         IN IF SkippedBeforeHash(f, name, type_ok, players_ok)
            THEN /\ todo' = Tail(todo)
                 /\ UNCHANGED <<hash_infos, replay_map, scan_result, scan_pc,
                                hashed, su_result, su_error>>
            ELSE /\ hashed' = hashed \cup {f}
                 /\ IF ~hash_ok
                    THEN /\ scan_result' = "err"
                         /\ su_result' = "err"
                         /\ su_error' = "Failed to read file: "
                         /\ scan_pc' = "done"
                         /\ UNCHANGED <<todo, hash_infos, replay_map>>
                    ELSE IF is_uploaded(scan_tracker, f.hash)
                    THEN /\ todo' = Tail(todo)
                         /\ UNCHANGED <<hash_infos, replay_map, scan_result,
                                        scan_pc, su_result, su_error>>
                    ELSE /\ todo' = Tail(todo)
                         /\ hash_infos' = Append(hash_infos, f.hash)
                         /\ replay_map' =
                                {m \in replay_map : m.hash # f.hash} \cup
                                {[hash |-> f.hash, file_info |-> f,
                                  game_type |-> f.game_type,
                                  player_name |-> name]}
                         /\ UNCHANGED <<scan_result, scan_pc, su_result,
                                        su_error>>
    /\ UNCHANGED <<scan_limit, player_names, prepared_replays, check_failed,
                   meta_failed, listed, net_calls, new_hashes, su_pos,
                   su_uploaded, scan_tracker, su_events>>
    /\ UNCHANGED sframe

\* the loop is over: Ok with nothing prepared when no hash is left, and
\* nothing to upload
FilterDone ==
    /\ scan_pc = "filter"
    /\ todo = <<>>
    /\ IF hash_infos = <<>>
       THEN /\ scan_result' = "ok"
            /\ su_result' = "ok"
            /\ scan_pc' = "done"
       ELSE /\ scan_pc' = "check"
            /\ UNCHANGED <<scan_result, su_result>>
    /\ UNCHANGED <<scan_limit, player_names, todo, hash_infos, replay_map,
                   prepared_replays, check_failed, meta_failed, listed,
                   hashed, net_calls, new_hashes, su_pos, su_uploaded,
                   scan_tracker, su_error, su_events>>
    /\ UNCHANGED sframe

\* what becomes of a check-hashes request
CheckOutcomes == {"ok", "network_error", "server_error", "parse_error"}

\* ReplayUploader::check_hashes: the Err text of an outcome, "" for Ok
check_hashes(outcome) ==
    CASE outcome = "network_error" -> "Network error: "
      [] outcome = "server_error" -> "Server error "
      [] outcome = "parse_error" -> "Failed to parse response: "
      [] OTHER -> ""

\* the ? on the result of check_hashes: an Err is returned at once
ReturnsEarlyNever(outcome) == FALSE

ReturnsEarly(outcome) == check_hashes(outcome) # ""

\* app.emit("upload-checking", {count}) and app.emit("upload-complete", {count})
UploadChecking == Event("upload-checking", "", <<>>, Len(hash_infos), 0, <<>>)
UploadComplete(count) == Event("upload-complete", "", <<>>, count, 0, <<>>)

\* to_upload: new_hashes.into_iter().take(limit)
to_upload == Take(new_hashes, scan_limit)

\* check_hashes and the prepared list: the request fails and the error is
\* returned, or the server names the hashes it does not hold; with nothing
\* prepared there is nothing to upload
CheckHashes ==
    /\ scan_pc = "check"
    /\ net_calls' = Append(net_calls, Request("check-hashes", hash_infos))
    /\ \E outcome \in CheckOutcomes, answer \in ServerAnswers(hash_infos) :
         /\ check_failed' = (outcome # "ok")
         /\ IF ReturnsEarly(outcome)
            THEN /\ scan_result' = "err"
                 /\ su_result' = "err"
                 /\ su_error' = check_hashes(outcome)
                 /\ su_events' = Append(su_events, UploadChecking)
                 /\ UNCHANGED <<prepared_replays, new_hashes, su_pos>>
            ELSE LET list == Prepared(answer, scan_limit, replay_map)
                     checked == <<UploadChecking,
                                  Event("upload-check-complete", "", <<>>,
                                        Len(answer), 0, <<>>)>>
                 IN /\ new_hashes' = answer
                    /\ prepared_replays' = list
                    /\ scan_result' = "ok"
                    /\ IF list = <<>>
                       THEN /\ su_result' = "ok"
                            /\ su_events' = su_events \o checked \o
                                              <<UploadComplete(0)>>
                            /\ UNCHANGED su_pos
                       ELSE /\ su_pos' = 1
                            /\ su_events' = su_events \o checked
                            /\ UNCHANGED su_result
                    /\ UNCHANGED su_error
    /\ scan_pc' = "done"
    /\ UNCHANGED <<scan_limit, player_names, todo, hash_infos, replay_map,
                   meta_failed, listed, hashed, su_uploaded, scan_tracker>>
    /\ UNCHANGED sframe

\* scan_and_upload after the scan: the upload of the next prepared replay,
\* its entry in the tracker and the save; the first failure is returned
UploadNext ==
    /\ scan_pc = "done"
    /\ scan_result = "ok"
    /\ su_result = "none"
    /\ su_pos >= 1
    /\ LET queue == UploadOrder(to_upload, replay_map)
           r == queue[su_pos]
           group == GroupOf(queue, KeyOf(r))
           t == add_replay(tracker,
                   TrackedReplay(r.hash, r.file_info.filename,
                                 r.file_info.filesize, uploaded_now))
           batch_start ==
               IF su_pos = 1 \/ KeyOf(queue[su_pos - 1]) # KeyOf(r)
               THEN <<Event("upload-batch-start", "", KeyOf(r), Len(group),
                            0, <<>>)>>
               ELSE <<>>
           progress == Event("upload-progress", r.file_info.filename, KeyOf(r),
                             su_pos, Len(to_upload), <<>>)
           batch_complete ==
               IF su_pos = Len(queue) \/ KeyOf(queue[su_pos + 1]) # KeyOf(r)
               THEN <<Event("upload-batch-complete", "", KeyOf(r), Len(group),
                            0, <<>>)>>
               ELSE <<>>
           before == su_events \o batch_start \o <<progress>>
       IN /\ net_calls' = Append(net_calls, Request("upload", <<r.hash>>))
          /\ \E uploaded \in BOOLEAN, saved \in BOOLEAN :
               IF ~uploaded
               THEN /\ su_result' = "err"
                    /\ su_error' = "Failed to upload "
                    /\ su_events' = before
                    /\ UNCHANGED <<tracker, disk, su_pos, su_uploaded>>
               ELSE /\ tracker' = t
                    /\ IF ~saved
                       THEN /\ su_result' = "err"
                            /\ su_error' = "Failed to write temp tracker: "
                            /\ su_events' = before
                            /\ UNCHANGED <<disk, su_pos, su_uploaded>>
                       ELSE /\ disk' = [disk EXCEPT ![tracker_file] = Serialize(t)]
                            /\ su_uploaded' = su_uploaded + 1
                            /\ UNCHANGED su_error
                            /\ IF su_pos = Len(queue)
                               THEN /\ su_result' = "ok"
                                    /\ su_events' = before \o batch_complete \o
                                           <<UploadComplete(su_uploaded + 1)>>
                                    /\ UNCHANGED su_pos
                               ELSE /\ su_pos' = su_pos + 1
                                    /\ su_events' = before \o batch_complete
                                    /\ UNCHANGED su_result
    /\ UNCHANGED <<scan_pc, scan_limit, player_names, todo, hash_infos,
                   replay_map, scan_result, prepared_replays, check_failed,
                   meta_failed, listed, hashed, new_hashes, scan_tracker>>
    /\ UNCHANGED <<wvars, evars, tvars, hvars, lvars, fvars, mvars, pvars>>

SNext ==
    \/ ScanStart
    \/ FilterStep
    \/ FilterDone
    \/ CheckHashes
    \/ UploadNext

C10_OnlyCheckHashesFails ==
    /\ scan_result = "err" => check_failed
    /\ scan_pc # "idle" => \A f \in ScanFiles : f \notin meta_failed => f \in listed

\* the local filters of the scan drop the replay: its game type is not
\* uploaded, the user is not an active player of it, or the tracker the scan
\* reads holds an entry with its file name and size
DroppedLocally(f) ==
    \/ ~should_upload(f.game_type)
    \/ find_user_in_game(f.players, player_names) = ""
    \/ exists_by_metadata(scan_tracker, f.filename, f.filesize)

\* the hashes of every request sent so far
SentHashes == UNION {Range(net_calls[k].hashes) : k \in 1..Len(net_calls)}

CallsOf(op) == SelectSeq(net_calls, LAMBDA c : c.op = op)

\* C12: the scan prepares at most scan_limit replays, each with a hash that
\* was in the check-hashes request of the scan and in the new_hashes of its
\* answer; when the answer names no hash, nothing is prepared, no upload
\* request is made and scan_and_upload returns Ok.
C12_PreparedWithinLimitAndNew ==
    /\ Len(prepared_replays) <= scan_limit
    /\ \A k \in 1..Len(prepared_replays) :
         /\ Len(CallsOf("check-hashes")) = 1
         /\ prepared_replays[k].hash \in Range(CallsOf("check-hashes")[1].hashes)
         /\ prepared_replays[k].hash \in Range(new_hashes)
    /\ (scan_result = "ok" /\ net_calls # <<>> /\ new_hashes = <<>>) =>
         /\ prepared_replays = <<>>
         /\ CallsOf("upload") = <<>>
         /\ su_result = "ok"
         /\ su_uploaded = 0

\* C12 witness: the answer named more hashes than the limit, one of them not
\* of the request, and the scan prepared as many replays as the limit.
C12_Witness ==
    /\ scan_result = "ok"
    /\ Len(new_hashes) > scan_limit
    /\ ForeignHash \in Range(new_hashes)
    /\ Len(prepared_replays) = scan_limit

\* C13: when the check-hashes request failed, scan_and_upload has returned
\* the error of that request, no upload request was made, nothing was
\* prepared, and the tracker and its file are as they were when the scan
\* began.
C13_CheckFailureAbortsScan ==
    check_failed =>
        /\ su_result = "err"
        /\ su_error \in {check_hashes(o) : o \in CheckOutcomes \ {"ok"}}
        /\ CallsOf("upload") = <<>>
        /\ prepared_replays = <<>>
        /\ su_uploaded = 0
        /\ tracker = scan_tracker
        /\ disk[tracker_file] = AbsentFile

\* C13 witness: a scan sent two hashes to the server and the request got a
\* non-2xx answer.
C13_Witness ==
    /\ check_failed
    /\ su_error = check_hashes("server_error")
    /\ Len(hash_infos) >= 2
    /\ Len(CallsOf("check-hashes")) = 1

\* C21 (as claimed): an invocation that uploaded a replay and returned Ok
\* emitted upload-start, upload-checking, upload-check-complete, then for
\* each group in sorted order its batch start, one upload-progress per
\* replay and its batch complete, then upload-complete; and its
\* upload-progress events carry current = 1, 2, ..., total, with one total.
C21_EventsInOrder ==
    LET groups == group_replays_by_type_and_player(to_upload, replay_map)
        RECURSIVE BatchNames(_)
        BatchNames(gs) ==
            IF gs = <<>> THEN <<>>
            ELSE <<"upload-batch-start">> \o
                 [k \in 1..Len(Head(gs).hashes) |-> "upload-progress"] \o
                 <<"upload-batch-complete">> \o BatchNames(Tail(gs))
        Named(name) == SelectSeq(su_events, LAMBDA e : e.name = name)
        progress == Named("upload-progress")
    IN (su_result = "ok" /\ su_uploaded >= 1) =>
        /\ [k \in 1..Len(su_events) |-> su_events[k].name] =
               <<"upload-start", "upload-checking", "upload-check-complete">>
                   \o BatchNames(groups) \o <<"upload-complete">>
        /\ \A g \in 1..Len(groups) :
             /\ Named("upload-batch-start")[g].key = KeyOf(groups[g])
             /\ Named("upload-batch-complete")[g].key = KeyOf(groups[g])
        /\ \A k \in 1..Len(progress) :
             /\ progress[k].filename =
                    UploadOrder(to_upload, replay_map)[k].file_info.filename
             /\ progress[k].n = k
             /\ progress[k].total = Len(progress)

\* C22 (as claimed): an invocation that returned Ok(n) emitted upload-start
\* first and upload-complete{count: n} last.
C22_OkEndsWithUploadComplete ==
    su_result = "ok" =>
        /\ su_events # <<>>
        /\ su_events[1].name = "upload-start"
        /\ su_events[Len(su_events)] = UploadComplete(su_uploaded)

(***************************************************************************)
(* The pure functions: group_replays_by_type_and_player and                 *)
(* detect_user_player_names (upload_manager.rs), classify_game_type         *)
(* (replay_parser.rs)                                                       *)
(***************************************************************************)
FIdle ==
    /\ fn_call = [op |-> "none", returned |-> FALSE]
    /\ fn_result = <<>>

\* the hashes of a call, the last of them in no replay_map
GroupHashes == {"h1", "h2", "h4", ForeignHash}

\* the replay_map of a call: each hash but the last has no entry or an entry
\* with one of three (game_type, player_name) pairs
GroupKeys ==
    {<<"1v1-ladder", "Lotus">>, <<"1v1-ladder", "Rival">>, <<"2v2-ladder", "Lotus">>}

GroupMaps ==
    { {[hash |-> h, game_type |-> c[h][1], player_name |-> c[h][2]] :
          h \in {x \in DOMAIN c : c[x] # <<>>}} :
      c \in [GroupHashes \ {ForeignHash} -> GroupKeys \cup {<<>>}] }

\* a call of group_replays_by_type_and_player
GroupCall ==
    /\ fn_call.op = "group" /\ ~fn_call.returned
    /\ fn_result' = group_replays_by_type_and_player(fn_call.hashes,
                                                     fn_call.replay_map)
    /\ fn_call' = [fn_call EXCEPT !.returned = TRUE]
    /\ UNCHANGED fframe

\* the player lists of the replays of a call of detect_user_player_names
DetectReplays ==
    { [players |-> <<Player("Lotus", FALSE), Player("Rival", FALSE)>>],
      [players |-> <<Player("Lotus", FALSE), Player("Other", FALSE)>>],
      [players |-> <<Player("Twin", FALSE), Player("Twin", FALSE)>>],
      [players |-> <<Player("Lotus", FALSE), Player("Computer", FALSE)>>],
      [players |-> <<Player("Rival", FALSE), Player("Other", FALSE),
                     Player("Lotus", TRUE)>>] }

\* a call of detect_user_player_names: the hash map yields the players in
\* one of its orders
DetectCall ==
    /\ fn_call.op = "detect" /\ ~fn_call.returned
    /\ fn_result' \in detect_user_player_names(fn_call.data)
    /\ fn_call' = [fn_call EXCEPT !.returned = TRUE]
    /\ UNCHANGED fframe

\* the arguments of one call, before the call
\* the values of GameType, in their as_str form
GameTypes ==
    {"1v1-ladder", "1v1-unranked", "1v1-private", "1v1-obs", "1vAI",
     "2v2-ladder", "2v2-unranked", "2v2-private", "2v2-obs",
     "team-game", "arcade", "practice", "other"}

\* the human counts of the teams of a replay, sorted descending
TeamSizes ==
    {<<>>, <<1>>, <<2>>, <<1, 1>>, <<2, 1>>, <<2, 2>>, <<3, 3>>, <<5, 1>>,
     <<1, 1, 1>>, <<2, 2, 2>>}

\* get_game_type: total_human_players is the sum of team_sizes
total_human_players(team_sizes) ==
    SumOver(team_sizes, [n \in Range(team_sizes) |-> n])

\* classify_game_type
classify_game_type(team_sizes, total_humans, observers, ai_count, amm, competitive, practice) ==
    IF practice THEN "practice"
    ELSE IF Len(team_sizes) = 2 /\ team_sizes[1] = 1 /\ team_sizes[2] = 1
    THEN IF observers > 0 THEN "1v1-obs"
         ELSE IF ai_count > 0 THEN "1vAI"
         ELSE IF amm THEN (IF competitive THEN "1v1-ladder" ELSE "1v1-unranked")
         ELSE "1v1-private"
    ELSE IF Len(team_sizes) = 1 /\ team_sizes[1] = 1 /\ ai_count > 0
    THEN "1vAI"
    ELSE IF Len(team_sizes) = 2 /\ team_sizes[1] = 2 /\ team_sizes[2] = 2
    THEN IF observers > 0 THEN "2v2-obs"
         ELSE IF amm THEN (IF competitive THEN "2v2-ladder" ELSE "2v2-unranked")
         ELSE "2v2-private"
    ELSE IF Len(team_sizes) = 2 /\ total_humans >= 6 THEN "team-game"
    ELSE IF ~amm /\ ~practice /\ total_humans > 0 THEN "arcade"
    ELSE "other"

\* get_game_type, from the counts it has drawn from the replay on: the call
\* of classify_game_type
ClassifyCall ==
    /\ fn_call.op = "classify" /\ ~fn_call.returned
    /\ fn_result' = classify_game_type(fn_call.team_sizes,
                                       total_human_players(fn_call.team_sizes),
                                       fn_call.observers, fn_call.ai_count,
                                       fn_call.amm, fn_call.competitive,
                                       fn_call.practice)
    /\ fn_call' = [fn_call EXCEPT !.returned = TRUE]
    /\ UNCHANGED fframe

\* the entries fs::read_dir can return for a replay folder: files, and one
\* directory
FolderEntries ==
    { [path |-> "a.SC2Replay", is_file |-> TRUE, modified_time |-> 8],
      [path |-> "b.sc2replay", is_file |-> TRUE, modified_time |-> 7],
      [path |-> "c.SC2REPLAY", is_file |-> TRUE, modified_time |-> 6],
      [path |-> "notes.txt", is_file |-> TRUE, modified_time |-> 5],
      [path |-> "game", is_file |-> TRUE, modified_time |-> 4],
      [path |-> ".SC2Replay", is_file |-> TRUE, modified_time |-> 3],
      [path |-> "d.SC2Replay.bak", is_file |-> TRUE, modified_time |-> 2],
      [path |-> "e.SC2Replay", is_file |-> FALSE, modified_time |-> 1] }

\* scan_replay_folder: an error for a folder that does not exist, else the
\* entries that are files with the extension SC2Replay, newest first
scan_replay_folder(folder_exists, entries) ==
    IF ~folder_exists THEN [ok |-> FALSE, replays |-> <<>>]
    ELSE [ok |-> TRUE,
          replays |-> SortNewestFirst({e \in entries :
                         e.is_file /\ has_replay_extension(e.path)})]

ScanFolderCall ==
    /\ fn_call.op = "scan_folder" /\ ~fn_call.returned
    /\ fn_result' = scan_replay_folder(fn_call.folder_exists, fn_call.entries)
    /\ fn_call' = [fn_call EXCEPT !.returned = TRUE]
    /\ UNCHANGED fframe

FInit ==
    /\ fn_result = <<>>
    /\ \/ \E n \in 0..MaxGroupInput :
            \E hashes \in [1..n -> GroupHashes], map \in GroupMaps :
               fn_call = [op |-> "group", returned |-> FALSE,
                          hashes |-> hashes, replay_map |-> map]
       \/ \E n \in 0..MaxDetectInput :
            \E data \in [1..n -> DetectReplays] :
               fn_call = [op |-> "detect", returned |-> FALSE, data |-> data]
       \/ \E team_sizes \in TeamSizes, observers \in 0..MaxObservers,
             ai_count \in 0..MaxAI, amm \in BOOLEAN, competitive \in BOOLEAN,
             practice \in BOOLEAN :
               fn_call = [op |-> "classify", returned |-> FALSE,
                          team_sizes |-> team_sizes, observers |-> observers,
                          ai_count |-> ai_count, amm |-> amm,
                          competitive |-> competitive, practice |-> practice]
       \/ \E folder_exists \in BOOLEAN, entries \in SUBSET FolderEntries :
               /\ folder_exists \/ entries = {}
               /\ fn_call = [op |-> "scan_folder", returned |-> FALSE,
                             folder_exists |-> folder_exists,
                             entries |-> entries]

FNext ==
    \/ GroupCall
    \/ DetectCall
    \/ ClassifyCall
    \/ ScanFolderCall

\* C25: the groups hold each hash of the input that replay_map knows in
\* exactly one group, the group of its (game_type, player_name); the groups
\* come in ascending (game_type, player_name) order; the hashes of a group
\* are in the order of the input; a hash replay_map does not know is in no
\* group.
C25_GroupsPartitionInSortedOrder ==
    (fn_call.op = "group" /\ fn_call.returned) =>
        LET hashes == fn_call.hashes
            map == fn_call.replay_map
            groups == fn_result
            types == <<"1v1-ladder", "1v1-obs", "2v2-ladder">>
            names == <<"Lotus", "Lotus409", "Other", "Rival">>
            Rank(str, sorted) == CHOOSE k \in 1..Len(sorted) : sorted[k] = str
            Less(a, b) ==
                \/ Rank(a.game_type, types) < Rank(b.game_type, types)
                \/ /\ a.game_type = b.game_type
                   /\ Rank(a.player_name, names) < Rank(b.player_name, names)
            Holding(h) == {g \in 1..Len(groups) : h \in Range(groups[g].hashes)}
        IN /\ \A h \in Range(hashes) :
                IF \E m \in map : m.hash = h
                THEN /\ Cardinality(Holding(h)) = 1
                     /\ \A g \in Holding(h) :
                          KeyOf(groups[g]) = KeyOf(CHOOSE m \in map : m.hash = h)
                ELSE Holding(h) = {}
           /\ \A g \in 1..Len(groups) :
                /\ Range(groups[g].hashes) \subseteq Range(hashes)
                /\ groups[g].hashes =
                       SelectSeq(hashes, LAMBDA h : h \in Range(groups[g].hashes))
           /\ \A a \in 1..Len(groups) : \A b \in 1..Len(groups) :
                a < b => Less(groups[a], groups[b])

\* C25 witness: a call whose input begins with a hash of the last group,
\* names a hash replay_map does not know, and holds two hashes of one group.
C25_Witness ==
    /\ fn_call.op = "group" /\ fn_call.returned
    /\ Len(fn_result) = 2
    /\ ForeignHash \in Range(fn_call.hashes)
    /\ fn_call.hashes[1] \in Range(fn_result[2].hashes)
    /\ Len(fn_result[1].hashes) = 2
    /\ fn_result[1].hashes[1] # fn_result[1].hashes[2]

\* C26 (as claimed): a name that is not an AI name and has frequency > 1 is
\* returned if and only if its co-occurrence rate with every non-AI name of
\* strictly higher frequency is at most 0.5.
C26_ExcludedOnlyByHigherFrequency ==
    (fn_call.op = "detect" /\ fn_call.returned) =>
        LET data == fn_call.data
            names == UNION {Range(ActiveNames(f)) : f \in Range(data)}
        IN \A n \in names :
             (~IsAIName(n) /\ frequency(data, n) > 1) =>
                 (n \in Range(fn_result) <=>
                    \A h \in names :
                        (~IsAIName(h) /\ frequency(data, h) > frequency(data, n))
                            => 2 * co_occurrences(data, n, h) <= frequency(data, n))

\* C27 (as claimed): the frequency of a name is the number of replays of
\* the input in which it is an active player, and every returned name is an
\* active player of more than one replay of the input.
C27_FrequencyCountsReplays ==
    (fn_call.op = "detect" /\ fn_call.returned) =>
        LET data == fn_call.data
            names == UNION {Range(ActiveNames(f)) : f \in Range(data)}
            ReplaysWith(n) ==
                Cardinality({k \in 1..Len(data) : n \in Range(ActiveNames(data[k]))})
        IN /\ \A n \in names : frequency(data, n) = ReplaysWith(n)
           /\ \A n \in Range(fn_result) : ReplaysWith(n) > 1

\* C28 (as claimed): every call on one input returns the same list.
C28_DetectionIsDeterministic ==
    (fn_call.op = "detect" /\ fn_call.returned) =>
        detect_user_player_names(fn_call.data) = {fn_result}

\* C29: classify_game_type returns a GameType for every input, and that
\* type is the one the rules give when applied in order, the first match
\* winning: practice gives Practice whatever the rest is; teams [1,1] give
\* Obs1v1 with an observer, else VsAI1v1 with an AI player, else Ladder1v1,
\* Unranked1v1 or Private1v1 by amm and competitive; teams [1] with an AI
\* player give VsAI1v1; teams [2,2] branch in the same way as teams [1,1],
\* into the 2v2 types (so that, without observer and with an AI player, the
\* result is none of the types of a game between humans); two teams of six
\* humans or more give TeamGame; without amm and with a human, Arcade; else
\* Other.
C29_ClassifyAppliesRulesInOrder ==
    (fn_call.op = "classify" /\ fn_call.returned) =>
        LET ts == fn_call.team_sizes
            humans == total_human_players(ts)
            obs == fn_call.observers > 0
            ai == fn_call.ai_count > 0
            amm == fn_call.amm
            ranked == fn_call.amm /\ fn_call.competitive
        IN /\ fn_result \in GameTypes
           /\ IF fn_call.practice THEN fn_result = "practice"
              ELSE IF ts = <<1, 1>> THEN
                   IF obs THEN fn_result = "1v1-obs"
                   ELSE IF ai THEN fn_result = "1vAI"
                   ELSE IF ranked THEN fn_result = "1v1-ladder"
                   ELSE IF amm THEN fn_result = "1v1-unranked"
                   ELSE fn_result = "1v1-private"
              ELSE IF ts = <<1>> /\ ai THEN fn_result = "1vAI"
              ELSE IF ts = <<2, 2>> THEN
                   IF obs THEN fn_result = "2v2-obs"
                   ELSE IF ai THEN fn_result \notin {"2v2-ladder", "2v2-unranked",
                                                      "2v2-private"}
                   ELSE IF ranked THEN fn_result = "2v2-ladder"
                   ELSE IF amm THEN fn_result = "2v2-unranked"
                   ELSE fn_result = "2v2-private"
              ELSE IF Len(ts) = 2 /\ humans >= 6 THEN fn_result = "team-game"
              ELSE IF ~amm /\ humans > 0 THEN fn_result = "arcade"
              ELSE fn_result = "other"

\* C30: a replay that is a practice game, or has an AI player, or whose
\* teams are neither 1v1 nor 2v2, is classified as a type that is not
\* uploaded; and the uploaded types are exactly the four 1v1 and the four
\* 2v2 types of games between humans.
C30_FilterExcludesPracticeAIAndTeams ==
    /\ {g \in GameTypes : should_upload(g)} =
           {"1v1-ladder", "1v1-unranked", "1v1-private", "1v1-obs",
            "2v2-ladder", "2v2-unranked", "2v2-private", "2v2-obs"}
    /\ (/\ fn_call.op = "classify" /\ fn_call.returned
        /\ \/ fn_call.practice
           \/ fn_call.ai_count > 0
           \/ fn_call.team_sizes \notin {<<1, 1>>, <<2, 2>>})
           => ~should_upload(fn_result)

\* C32: scan_replay_folder retains a file of the folder if and only if its
\* extension equals SC2Replay ignoring case, the predicate is_sc2_replay of
\* the watcher; so every file the watcher takes for a replay is in the
\* result of a scan of its folder.
C32_ScanRetainsWhatWatcherReports ==
    (fn_call.op = "scan_folder" /\ fn_call.returned /\ fn_call.folder_exists) =>
        /\ fn_result.ok
        /\ \A e \in fn_call.entries :
              e.is_file =>
                 (e \in Range(fn_result.replays) <=> is_sc2_replay(e.path))

(***************************************************************************)
(* The specifications                                                      *)
(***************************************************************************)
\* the watcher before start(), over a folder that does not change
WIdle == WInit /\ \A p \in Paths : files[p] = "old"

WatcherInit ==
    WInit /\ KInit /\ EInit /\ TIdle /\ SIdle /\ HInit /\ LIdle /\ FIdle
    /\ MInit /\ PInit

WatcherSpec == WatcherInit /\ [][WNext]_vars

WatcherLiveSpec == WatcherInit /\ [][WNext]_vars /\ WFairness

ExecInit ==
    WIdle /\ KInit /\ EInit /\ TIdle /\ SIdle /\ HInit /\ LIdle /\ FIdle
    /\ MInit /\ PInit

ExecSpec == ExecInit /\ [][ENext]_vars

TrackerInit ==
    WIdle /\ EInit /\ TInit /\ SIdle /\ HInit /\ LIdle /\ FIdle
    /\ MInit /\ PInit

TrackerSpec == TrackerInit /\ [][TNext]_vars

ScanInit ==
    WIdle /\ EInit /\ TIdle /\ SInit /\ HInit /\ LIdle /\ FIdle
    /\ MInit /\ PInit

ScanSpec == ScanInit /\ [][SNext]_vars

ClockInit ==
    WIdle /\ KInit /\ EInit /\ TIdle /\ SIdle /\ HInit /\ LIdle /\ FIdle
    /\ MInit /\ PInit

ClockSpec == ClockInit /\ [][HNext]_vars

LockInit ==
    WIdle /\ KInit /\ EInit /\ TIdle /\ SIdle /\ HInit /\ LIdle /\ FIdle
    /\ MInit /\ PInit

LockSpec == LockInit /\ [][LNext]_vars

FuncInit ==
    WIdle /\ KInit /\ EInit /\ TIdle /\ SIdle /\ HInit /\ LIdle /\ FInit
    /\ MInit /\ PInit

FuncSpec == FuncInit /\ [][FNext]_vars

ManagerWatchInit ==
    WIdle /\ KInit /\ EInit /\ TIdle /\ SIdle /\ HInit /\ LIdle /\ FIdle
    /\ MInit /\ PInit

ManagerWatchSpec == ManagerWatchInit /\ [][MNext]_vars

GuardInit ==
    WIdle /\ KInit /\ EInit /\ TIdle /\ SIdle /\ HInit /\ LIdle /\ FIdle
    /\ MInit /\ PInit

GuardSpec == GuardInit /\ [][PNext]_vars

====
